---- MODULE Spec2Model ----
(***************************************************************************)
(* Model of the healer daemon (src/healer_daemon.py), its worker           *)
(* processes (src/worker.py) and the tables of src/database.py.            *)
(*                                                                         *)
(* The daemon handles one command at a time (run(), the accept loop), so   *)
(* every handler is one atomic action.  Workers are separate OS processes: *)
(* a worker's own terminal write is an action of its own.  The ORM session *)
(* of the daemon is long lived: attribute changes that a handler leaves    *)
(* uncommitted stay in it ("pending") until the next commit or rollback.   *)
(***************************************************************************)
EXTENDS Integers, Sequences, FiniteSets, TLC

\* ------------------------------------------------------------------ bounds
\* Commands served in one behaviour, session rows ever inserted, clock readings.
MaxCommands == 2
MaxSessions == 4
MaxClock == 2

\* Every leaf takes one pid; one more allows a respawn.
MaxPid == MaxSessions + 1

\* --------------------------------------------------------------- constants
\* Python None / SQL NULL of the nullable columns; ids, pids and times are >= 1.
NULL == 0

SCHEDULED == "scheduled"
RUNNING == "running"
COMPLETED == "completed"
STOPPED == "stopped"
FAILED == "failed"
RESTARTED == "restarted"
SessionStatus == {SCHEDULED, RUNNING, COMPLETED, STOPPED, FAILED, RESTARTED}
Terminal == {COMPLETED, STOPPED, FAILED, RESTARTED}

IC_SESSION == "ic_session"
REQUEST_SESSION == "request_session"
AVATAR_LINK == "avatar_link"
GROUP_IC_SESSION == "group_ic_session"

\* The catalog the CLI wrote before the daemon started: ids of the rows.
AvatarIds == {1, 2, 3}
ICs == {1, 2}
Requests == {1, 2, 3}
GroupNames == {1}

\* Payload columns.  Bytes are numbers 0..255, text is a sequence of code points.
InitPhoto == <<7>>
InitInfo == <<97>>
wav_data(ic_id) == <<40 + ic_id>>
request_data(request_id) == <<232 + request_id>>

\* str.encode('utf-8') for code points below 2048.
RECURSIVE Utf8(_)
Utf8(text) ==
    IF text = <<>> THEN <<>>
    ELSE LET c == Head(text)
         IN (IF c < 128 THEN <<c>> ELSE <<192 + (c \div 64), 128 + (c % 64)>>)
            \o Utf8(Tail(text))

VARIABLES sessions, next_session_id, avatars, avatar_groups, ic_groups,
          request_groups, active_workers, procs, next_pid, avatar_cache,
          ic_cache, request_cache, pending, now, served, last, handler

vars == <<sessions, next_session_id, avatars, avatar_groups, ic_groups,
          request_groups, active_workers, procs, next_pid, avatar_cache,
          ic_cache, request_cache, pending, now, served, last, handler>>

\* ----------------------------------------------------------------- helpers
\* The loop of run() is blocked in s.accept(): no handler is executing.
Idle == [pc |-> "accept"]

EmptyMap == [x \in {} |-> NULL]

MapPut(f, k, v) == [x \in DOMAIN f \cup {k} |-> IF x = k THEN v ELSE f[x]]

MapPop(f, k) == [x \in DOMAIN f \ {k} |-> f[x]]

RECURSIVE SortedSeq(_)
SortedSeq(S) ==
    IF S = {} THEN <<>>
    ELSE LET m == CHOOSE x \in S : \A y \in S : x <= y
         IN <<m>> \o SortedSeq(S \ {m})

\* A Session row with the column defaults of the table.
Session ==
    [parent_session_id |-> NULL, is_group_session |-> FALSE,
     description |-> [redo |-> 0, phrase |-> "", a |-> NULL, b |-> NULL, op |-> NULL],
     avatar_id |-> NULL, ic_id |-> NULL, request_id |-> NULL,
     destination_avatar_id |-> NULL, avatar_group_id |-> NULL,
     ic_group_id |-> NULL, request_group_id |-> NULL,
     session_type |-> IC_SESSION, start_time |-> NULL, end_time |-> NULL,
     status |-> SCHEDULED, worker_pid |-> NULL]

\* The daemon's view while a handler runs: the tables, the daemon's maps and
\* the inputs of this run (tick_at: the utcnow() call from which the clock
\* reads one later; spawn_fail: the process.start() calls that raise).
World(tick_at, spawn_fail) ==
    [sessions |-> sessions, next_session_id |-> next_session_id,
     avatars |-> avatars, avatar_groups |-> avatar_groups,
     ic_groups |-> ic_groups, request_groups |-> request_groups,
     active_workers |-> active_workers, procs |-> procs, next_pid |-> next_pid,
     avatar_cache |-> avatar_cache, ic_cache |-> ic_cache,
     request_cache |-> request_cache, pending |-> pending, now |-> now,
     tick_at |-> tick_at, reads |-> 0, spawn_fail |-> spawn_fail, spawns |-> 0]

\* db_session.commit(): flushes the pending attribute changes with it.
Commit(w) ==
    [w EXCEPT !.sessions = [i \in DOMAIN w.sessions |->
                              IF i \in w.pending
                              THEN [w.sessions[i] EXCEPT !.status = FAILED]
                              ELSE w.sessions[i]],
              !.pending = {}]

\* db_session.rollback(): the pending attribute changes are dropped.
Rollback(w) == [w EXCEPT !.pending = {}]

\* session.status as the daemon's ORM session shows it.
StatusOf(w, sid) == IF sid \in w.pending THEN FAILED ELSE w.sessions[sid].status

\* session.status = status: the assignment replaces a pending one.
SetStatus(w, sid, status) ==
    [w EXCEPT !.sessions[sid].status = status, !.pending = @ \ {sid}]

\* datetime.utcnow(), the k-th call of this handler.
Utcnow(w, k) == IF w.tick_at # 0 /\ k >= w.tick_at THEN w.now + 1 ELSE w.now

\* start_time=utcnow(), end_time=(utcnow() + timedelta(minutes=d)) if d else None
Times(w, duration) ==
    [w |-> [w EXCEPT !.reads = @ + (IF duration # NULL THEN 2 ELSE 1)],
     start_time |-> Utcnow(w, w.reads + 1),
     end_time |-> IF duration # NULL THEN Utcnow(w, w.reads + 2) + duration ELSE NULL]

\* db_session.add(row); db_session.commit()
AddSession(w, row) ==
    Commit([w EXCEPT !.sessions = MapPut(w.sessions, w.next_session_id, row),
                     !.next_session_id = @ + 1])

Reply(w, status, count) == [w |-> w, status |-> status, count |-> count]

\* except Exception: db_session.rollback(); return error
Error(w) == Reply(Rollback(w), "error", 0)

\* ------------------------------------------------------------------ caches
_load_avatar_to_cache(w, avatar_id) ==
    IF avatar_id \in DOMAIN w.avatar_cache
    THEN [w |-> w, ok |-> TRUE, bytes |-> w.avatar_cache[avatar_id]]
    ELSE IF avatar_id \notin DOMAIN w.avatars
    THEN [w |-> w, ok |-> FALSE, bytes |-> <<>>]
    ELSE LET blob == w.avatars[avatar_id].photo_data
                     \o Utf8(w.avatars[avatar_id].info_data)
         IN [w |-> [w EXCEPT !.avatar_cache = MapPut(@, avatar_id, blob)],
             ok |-> TRUE, bytes |-> blob]

_load_ic_to_cache(w, ic_id) ==
    IF ic_id \in DOMAIN w.ic_cache
    THEN [w |-> w, ok |-> TRUE, bytes |-> w.ic_cache[ic_id]]
    ELSE IF ic_id \notin ICs
    THEN [w |-> w, ok |-> FALSE, bytes |-> <<>>]
    ELSE [w |-> [w EXCEPT !.ic_cache = MapPut(@, ic_id, wav_data(ic_id))],
          ok |-> TRUE, bytes |-> wav_data(ic_id)]

_load_request_to_cache(w, request_id) ==
    IF request_id \in DOMAIN w.request_cache
    THEN [w |-> w, ok |-> TRUE, bytes |-> w.request_cache[request_id]]
    ELSE IF request_id \notin Requests
    THEN [w |-> w, ok |-> FALSE, bytes |-> <<>>]
    ELSE LET blob == Utf8(request_data(request_id))
         IN [w |-> [w EXCEPT !.request_cache = MapPut(@, request_id, blob)],
             ok |-> TRUE, bytes |-> blob]

\* -------------------------------------------------------------- supervisor
\* An except branch that only logs the failure.
SpawnFailedLogged(w, sid) == w

\* The except branch of _spawn_worker_for_session.
SpawnFailed(w, sid) == Commit(SetStatus(w, sid, FAILED))

\* A start() whose handle is not kept in active_workers.
SpawnStartedUnregistered(w, sid, item1, item2) ==
    LET pid == w.next_pid
        proc == [session_id |-> sid, alive |-> TRUE,
                 end_time |-> w.sessions[sid].end_time,
                 item1_bytes |-> item1, item2_bytes |-> item2]
    IN Commit([SetStatus(w, sid, RUNNING) EXCEPT
                   !.procs = MapPut(@, pid, proc),
                   !.next_pid = @ + 1,
                   !.sessions[sid].worker_pid = pid])

\* process.start() succeeded: the row goes RUNNING with the pid, then the
\* handle is kept.
SpawnStarted(w, sid, item1, item2) ==
    LET pid == w.next_pid
        proc == [session_id |-> sid, alive |-> TRUE,
                 end_time |-> w.sessions[sid].end_time,
                 item1_bytes |-> item1, item2_bytes |-> item2]
        w1 == Commit([SetStatus(w, sid, RUNNING) EXCEPT
                          !.procs = MapPut(@, pid, proc),
                          !.next_pid = @ + 1,
                          !.sessions[sid].worker_pid = pid])
    IN [w1 EXCEPT !.active_workers = MapPut(@, sid, pid)]

_spawn_worker_for_session(w, sid) ==
    IF sid \notin DOMAIN w.sessions THEN w
    ELSE IF sid \in DOMAIN w.active_workers THEN w
    ELSE LET s == w.sessions[sid]
             l1 == _load_avatar_to_cache(w, s.avatar_id)
             l2 == IF s.session_type \in {IC_SESSION, GROUP_IC_SESSION}
                   THEN _load_ic_to_cache(l1.w, s.ic_id)
                   ELSE IF s.session_type = REQUEST_SESSION
                   THEN _load_request_to_cache(l1.w, s.request_id)
                   ELSE _load_avatar_to_cache(l1.w, s.destination_avatar_id)
             w2 == [l2.w EXCEPT !.spawns = @ + 1]
         IN IF ~l1.ok THEN SpawnFailed(l1.w, sid)
            ELSE IF ~l2.ok THEN SpawnFailed(l2.w, sid)
            ELSE IF w2.spawns \in w2.spawn_fail THEN SpawnFailed(w2, sid)
            ELSE SpawnStarted(w2, sid, l1.bytes, l2.bytes)

\* active_workers.pop(id); terminate and join the process when it is alive.
PopAndTerminate(w, sid) ==
    IF sid \notin DOMAIN w.active_workers THEN w
    ELSE LET pid == w.active_workers[sid]
         IN [w EXCEPT !.active_workers = MapPop(@, sid),
                      !.procs = MapPop(@, pid)]

\* The write of _stop_single_session / _fail_single_session.
EndSingle(w, sid, status) ==
    Commit([SetStatus(PopAndTerminate(w, sid), sid, status) EXCEPT
                !.sessions[sid].worker_pid = NULL])

_stop_single_session(w, sid) ==
    IF sid \notin DOMAIN w.sessions \/ StatusOf(w, sid) # RUNNING
    THEN [w |-> w, ok |-> FALSE]
    ELSE [w |-> EndSingle(w, sid, STOPPED), ok |-> TRUE]

_fail_single_session(w, sid) ==
    IF sid \notin DOMAIN w.sessions \/ StatusOf(w, sid) # RUNNING
    THEN [w |-> w, ok |-> FALSE]
    ELSE [w |-> EndSingle(w, sid, FAILED), ok |-> TRUE]

\* for s in ids: if _stop_single_session(s): count += 1
RECURSIVE StopEach(_, _, _)
StopEach(w, ids, count) ==
    IF ids = <<>> THEN [w |-> w, count |-> count]
    ELSE LET r == _stop_single_session(w, Head(ids))
         IN StopEach(r.w, Tail(ids), count + (IF r.ok THEN 1 ELSE 0))

RECURSIVE FailEach(_, _, _)
FailEach(w, ids, count) ==
    IF ids = <<>> THEN [w |-> w, count |-> count]
    ELSE LET r == _fail_single_session(w, Head(ids))
         IN FailEach(r.w, Tail(ids), count + (IF r.ok THEN 1 ELSE 0))

\* ---------------------------------------------------------------- expander
Desc(phrase, a, b, op) == [redo |-> 0, phrase |-> phrase, a |-> a, b |-> b, op |-> op]

\* Session(...) with start_time/end_time read from the clock, add, commit, spawn.
AddLeafFresh(w, row, duration) ==
    LET t == Times(w, duration)
        sid == w.next_session_id
    IN _spawn_worker_for_session(
           AddSession(t.w, [row EXCEPT !.start_time = t.start_time,
                                       !.end_time = t.end_time]), sid)

RECURSIVE AddLeavesFresh(_, _, _)
AddLeavesFresh(w, rows, duration) ==
    IF rows = <<>> THEN w
    ELSE AddLeavesFresh(AddLeafFresh(w, Head(rows), duration), Tail(rows), duration)

\* Session(... start_time=parent.start_time, end_time=parent.end_time), add,
\* commit, spawn.
AddLeafOf(w, row) ==
    _spawn_worker_for_session(AddSession(w, row), w.next_session_id)

RECURSIVE AddLeavesOf(_, _)
AddLeavesOf(w, rows) ==
    IF rows = <<>> THEN w
    ELSE AddLeavesOf(AddLeafOf(w, Head(rows)), Tail(rows))

\* A parent row inserted without the is_group_session flag.
AddParentUnflagged(w, row, duration) ==
    LET t == Times(w, duration)
    IN AddSession(t.w, [row EXCEPT !.status = RUNNING,
                                   !.start_time = t.start_time,
                                   !.end_time = t.end_time])

\* A parent row: is_group_session=True, status=RUNNING, times from the clock.
AddParent(w, row, duration) ==
    LET t == Times(w, duration)
    IN AddSession(t.w, [row EXCEPT !.is_group_session = TRUE, !.status = RUNNING,
                                   !.start_time = t.start_time,
                                   !.end_time = t.end_time])

\* A resolver that accepts a group without members.
_get_target_avatar_ids_any_group(w, avatar_id, avatar_group_name) ==
    IF avatar_id # NULL
    THEN [ok |-> avatar_id \in DOMAIN w.avatars, ids |-> <<avatar_id>>]
    ELSE IF avatar_group_name # NULL
    THEN [ok |-> avatar_group_name \in DOMAIN w.avatar_groups,
          ids |-> IF avatar_group_name \in DOMAIN w.avatar_groups
                  THEN SortedSeq(w.avatar_groups[avatar_group_name]) ELSE <<>>]
    ELSE [ok |-> FALSE, ids |-> <<>>]

_get_target_avatar_ids(w, avatar_id, avatar_group_name) ==
    IF avatar_id # NULL
    THEN [ok |-> avatar_id \in DOMAIN w.avatars, ids |-> <<avatar_id>>]
    ELSE IF avatar_group_name # NULL
    THEN IF avatar_group_name \notin DOMAIN w.avatar_groups
         THEN [ok |-> FALSE, ids |-> <<>>]
         ELSE [ok |-> w.avatar_groups[avatar_group_name] # {},
               ids |-> SortedSeq(w.avatar_groups[avatar_group_name])]
    ELSE [ok |-> FALSE, ids |-> <<>>]

_get_target_request_ids(w, request_id, request_group_name) ==
    IF request_id # NULL
    THEN [ok |-> request_id \in Requests, ids |-> <<request_id>>]
    ELSE IF request_group_name # NULL
    THEN IF request_group_name \notin DOMAIN w.request_groups
         THEN [ok |-> FALSE, ids |-> <<>>]
         ELSE [ok |-> w.request_groups[request_group_name] # {},
               ids |-> SortedSeq(w.request_groups[request_group_name])]
    ELSE [ok |-> FALSE, ids |-> <<>>]

handle_start_ic(w, data) ==
    LET tgt == _get_target_avatar_ids(w, data.avatar_id, data.avatar_group)
    IN IF ~tgt.ok \/ data.ic_id \notin ICs THEN Error(w)
       ELSE LET grouped == Len(tgt.ids) > 1
                parent_id == IF grouped THEN w.next_session_id ELSE NULL
                w1 == IF grouped
                      THEN AddParent(w,
                             [Session EXCEPT
                                !.description = Desc("IC on Avatar Group", data.ic_id,
                                                     data.avatar_group, NULL),
                                !.avatar_group_id = data.avatar_group,
                                !.ic_id = data.ic_id,
                                !.session_type = IC_SESSION], data.duration)
                      ELSE w
                rows == [i \in 1..Len(tgt.ids) |->
                           [Session EXCEPT
                              !.parent_session_id = parent_id,
                              !.avatar_id = tgt.ids[i], !.ic_id = data.ic_id,
                              !.description = Desc("<=>", tgt.ids[i], data.ic_id, parent_id),
                              !.session_type = IC_SESSION]]
            IN Reply(AddLeavesFresh(w1, rows, data.duration), "success", Len(tgt.ids))

\* The rows of the nested loop: for avatar_id in ...: for request_id in ...
Pairs(as, bs) ==
    [k \in 1..(Len(as) * Len(bs)) |->
        <<as[((k - 1) \div Len(bs)) + 1], bs[((k - 1) % Len(bs)) + 1]>>]

handle_start_request(w, data) ==
    LET ta == _get_target_avatar_ids(w, data.avatar_id, data.avatar_group)
        tr == _get_target_request_ids(w, data.request_id, data.request_group)
    IN IF ~ta.ok \/ ~tr.ok THEN Error(w)
       ELSE LET grouped == Len(ta.ids) > 1 \/ Len(tr.ids) > 1
                parent_id == IF grouped THEN w.next_session_id ELSE NULL
                prow == IF Len(ta.ids) > 1 /\ Len(tr.ids) > 1
                        THEN [Session EXCEPT
                                !.description = Desc("Request Group on Avatar Group",
                                                     data.request_group, data.avatar_group, NULL),
                                !.avatar_group_id = data.avatar_group,
                                !.request_group_id = data.request_group,
                                !.session_type = REQUEST_SESSION]
                        ELSE IF Len(ta.ids) > 1
                        THEN [Session EXCEPT
                                !.description = Desc("Request on Avatar Group",
                                                     tr.ids[1], data.avatar_group, NULL),
                                !.avatar_group_id = data.avatar_group,
                                !.request_id = tr.ids[1],
                                !.session_type = REQUEST_SESSION]
                        ELSE [Session EXCEPT
                                !.description = Desc("Request Group on Avatar",
                                                     data.request_group, ta.ids[1], NULL),
                                !.request_group_id = data.request_group,
                                !.avatar_id = ta.ids[1],
                                !.session_type = REQUEST_SESSION]
                w1 == IF grouped THEN AddParent(w, prow, data.duration) ELSE w
                leaf(a, r) == [Session EXCEPT
                                 !.parent_session_id = parent_id,
                                 !.avatar_id = a, !.request_id = r,
                                 !.description = Desc("<=>", a, r, parent_id),
                                 !.session_type = REQUEST_SESSION]
                pairs == Pairs(ta.ids, tr.ids)
                rows == [k \in DOMAIN pairs |-> leaf(pairs[k][1], pairs[k][2])]
            IN Reply(AddLeavesFresh(w1, rows, data.duration), "success", Len(rows))

\* start_link without the "if source_id == dest_id: continue" of the loop.
handle_start_link_no_skip(w, data) ==
    LET td == _get_target_avatar_ids(w, data.dest_id, data.dest_group)
    IN IF ~td.ok \/ data.source_id \notin DOMAIN w.avatars THEN Error(w)
       ELSE LET grouped == Len(td.ids) > 1
                parent_id == IF grouped THEN w.next_session_id ELSE NULL
                w1 == IF grouped
                      THEN AddParent(w,
                             [Session EXCEPT
                                !.description = Desc("Link to Avatar Group", data.source_id,
                                                     data.dest_group, NULL),
                                !.avatar_id = data.source_id,
                                !.avatar_group_id = data.dest_group,
                                !.session_type = AVATAR_LINK], data.duration)
                      ELSE w
                rows == [i \in 1..Len(td.ids) |->
                           [Session EXCEPT
                              !.parent_session_id = parent_id,
                              !.avatar_id = data.source_id,
                              !.destination_avatar_id = td.ids[i],
                              !.description = Desc("Link", data.source_id, td.ids[i], parent_id),
                              !.session_type = AVATAR_LINK]]
            IN Reply(AddLeavesFresh(w1, rows, data.duration), "success", Len(rows))

handle_start_link(w, data) ==
    LET td == _get_target_avatar_ids(w, data.dest_id, data.dest_group)
    IN IF ~td.ok \/ data.source_id \notin DOMAIN w.avatars THEN Error(w)
       ELSE LET grouped == Len(td.ids) > 1
                parent_id == IF grouped THEN w.next_session_id ELSE NULL
                w1 == IF grouped
                      THEN AddParent(w,
                             [Session EXCEPT
                                !.description = Desc("Link to Avatar Group", data.source_id,
                                                     data.dest_group, NULL),
                                !.avatar_id = data.source_id,
                                !.avatar_group_id = data.dest_group,
                                !.session_type = AVATAR_LINK], data.duration)
                      ELSE w
                dests == SelectSeq(td.ids, LAMBDA d : d # data.source_id)
                rows == [i \in 1..Len(dests) |->
                           [Session EXCEPT
                              !.parent_session_id = parent_id,
                              !.avatar_id = data.source_id,
                              !.destination_avatar_id = dests[i],
                              !.description = Desc("Link", data.source_id, dests[i], parent_id),
                              !.session_type = AVATAR_LINK]]
            IN Reply(AddLeavesFresh(w1, rows, data.duration), "success", Len(dests))

\* start_group with the parent rule of the other start commands: a parent
\* only for more than one pair.
handle_start_group_threshold(w, data) ==
    IF data.avatar_group \notin DOMAIN w.avatar_groups
       \/ data.ic_group \notin DOMAIN w.ic_groups
    THEN Error(w)
    ELSE IF w.avatar_groups[data.avatar_group] = {} \/ w.ic_groups[data.ic_group] = {}
    THEN Reply(w, "error", 0)
    ELSE LET as == SortedSeq(w.avatar_groups[data.avatar_group])
             cs == SortedSeq(w.ic_groups[data.ic_group])
             grouped == Len(as) * Len(cs) > 1
             parent_id == IF grouped THEN w.next_session_id ELSE NULL
             t == Times(w, data.duration)
             w1 == IF grouped
                   THEN AddParent(w,
                          [Session EXCEPT
                             !.description = Desc("IC Group on Avatar Group", data.ic_group,
                                                  data.avatar_group, NULL),
                             !.avatar_group_id = data.avatar_group,
                             !.ic_group_id = data.ic_group,
                             !.session_type = GROUP_IC_SESSION], data.duration)
                   ELSE t.w
             leaf(a, c) == [Session EXCEPT
                              !.parent_session_id = parent_id,
                              !.avatar_id = a, !.ic_id = c,
                              !.description = Desc("<=>", a, c, parent_id),
                              !.session_type = IC_SESSION,
                              !.start_time = t.start_time, !.end_time = t.end_time]
             pairs == Pairs(as, cs)
             rows == [k \in DOMAIN pairs |-> leaf(pairs[k][1], pairs[k][2])]
         IN Reply(AddLeavesOf(w1, rows), "success", Len(rows))

handle_start_group(w, data) ==
    IF data.avatar_group \notin DOMAIN w.avatar_groups
       \/ data.ic_group \notin DOMAIN w.ic_groups
    THEN Error(w)
    ELSE IF w.avatar_groups[data.avatar_group] = {} \/ w.ic_groups[data.ic_group] = {}
    THEN Reply(w, "error", 0)
    ELSE LET parent_id == w.next_session_id
             w1 == AddParent(w,
                     [Session EXCEPT
                        !.description = Desc("IC Group on Avatar Group", data.ic_group,
                                             data.avatar_group, NULL),
                        !.avatar_group_id = data.avatar_group,
                        !.ic_group_id = data.ic_group,
                        !.session_type = GROUP_IC_SESSION], data.duration)
             p == w1.sessions[parent_id]
             leaf(a, c) == [Session EXCEPT
                              !.parent_session_id = parent_id,
                              !.avatar_id = a, !.ic_id = c,
                              !.description = Desc("<=>", a, c, parent_id),
                              !.session_type = IC_SESSION,
                              !.start_time = p.start_time, !.end_time = p.end_time]
             pairs == Pairs(SortedSeq(w.avatar_groups[data.avatar_group]),
                            SortedSeq(w.ic_groups[data.ic_group]))
             rows == [k \in DOMAIN pairs |-> leaf(pairs[k][1], pairs[k][2])]
         IN Reply(AddLeavesOf(w1, rows), "success", Len(rows))

\* ------------------------------------------------------------------- stop
child_sessions(w, sid) ==
    SortedSeq({c \in DOMAIN w.sessions : w.sessions[c].parent_session_id = sid})

\* stop_session that stops the named row only.
handle_stop_session_alone(w, data) ==
    IF data.session_id \notin DOMAIN w.sessions THEN Reply(w, "error", 0)
    ELSE LET r == StopEach(w, <<data.session_id>>, 0)
         IN Reply(Commit(SetStatus(r.w, data.session_id, STOPPED)), "success", r.count)

handle_stop_session(w, data) ==
    IF data.session_id \notin DOMAIN w.sessions THEN Reply(w, "error", 0)
    ELSE LET s == w.sessions[data.session_id]
             sessions_to_stop ==
                 <<data.session_id>> \o
                 (IF s.is_group_session \/ s.parent_session_id = NULL
                  THEN child_sessions(w, data.session_id) ELSE <<>>)
             r == StopEach(w, sessions_to_stop, 0)
         IN Reply(Commit(SetStatus(r.w, data.session_id, STOPPED)), "success", r.count)

\* ----------------------------------------------------------- update entity
\* bytes(json.loads(...)) raises ValueError outside 0..255.
IsBytes(xs) == \A i \in 1..Len(xs) : xs[i] \in 0..255

\* for session in affected: if _stop_single_session(id): _spawn...; count += 1
RECURSIVE RestartEach(_, _, _)
RestartEach(w, ids, count) ==
    IF ids = <<>> THEN [w |-> w, count |-> count]
    ELSE LET r == _stop_single_session(w, Head(ids))
         IN IF r.ok
            THEN RestartEach(_spawn_worker_for_session(r.w, Head(ids)), Tail(ids), count + 1)
            ELSE RestartEach(r.w, Tail(ids), count)

\* Sessions whose avatar_id or destination_avatar_id is the avatar.
ReferencesAvatar(s, avatar_id) ==
    s.avatar_id = avatar_id \/ s.destination_avatar_id = avatar_id

\* An update_entity that leaves the cache entry of the profile in place.
handle_update_entity_keeps_cache(w, data) ==
    IF data.entity_type # "avatar" THEN Reply(w, "error", 0)
    ELSE IF data.id \notin DOMAIN w.avatars THEN Reply(w, "error", 0)
    ELSE IF data.has_photo /\ ~IsBytes(data.photo_data_b64) THEN Error(w)
    ELSE LET old == w.avatars[data.id]
             new == [photo_data |-> IF data.has_photo THEN data.photo_data_b64
                                    ELSE old.photo_data,
                     info_data |-> IF data.has_info THEN data.info_data
                                   ELSE old.info_data]
             w1 == Commit([w EXCEPT !.avatars[data.id] = new])
             affected == SortedSeq({i \in DOMAIN w1.sessions :
                                      /\ w1.sessions[i].status = RUNNING
                                      /\ ReferencesAvatar(w1.sessions[i], data.id)})
             r == RestartEach(w1, affected, 0)
         IN Reply(r.w, "success", r.count)

handle_update_entity(w, data) ==
    IF data.entity_type # "avatar" THEN Reply(w, "error", 0)
    ELSE IF data.id \notin DOMAIN w.avatars THEN Reply(w, "error", 0)
    ELSE IF data.has_photo /\ ~IsBytes(data.photo_data_b64) THEN Error(w)
    ELSE LET old == w.avatars[data.id]
             new == [photo_data |-> IF data.has_photo THEN data.photo_data_b64
                                    ELSE old.photo_data,
                     info_data |-> IF data.has_info THEN data.info_data
                                   ELSE old.info_data]
             w1 == Commit([w EXCEPT !.avatars[data.id] = new,
                                    !.avatar_cache = MapPop(@, data.id)])
             affected == SortedSeq({i \in DOMAIN w1.sessions :
                                      /\ w1.sessions[i].status = RUNNING
                                      /\ ReferencesAvatar(w1.sessions[i], data.id)})
             r == RestartEach(w1, affected, 0)
         IN Reply(r.w, "success", r.count)

\* ------------------------------------------------------- group membership
\* RUNNING parent rows (as the database has them) bound to a group.
ActiveGroupSessions(w, column, group_id) ==
    SortedSeq({i \in DOMAIN w.sessions :
                 /\ w.sessions[i].is_group_session
                 /\ w.sessions[i].status = RUNNING
                 /\ w.sessions[i][column] = group_id})

\* The leaves one RUNNING parent gets for a new member of its avatar group.
NewLeavesFor(w, pid, member_id) ==
    LET p == w.sessions[pid]
        base == [Session EXCEPT !.parent_session_id = pid,
                                !.start_time = p.start_time,
                                !.end_time = p.end_time]
    IN IF p.session_type = GROUP_IC_SESSION
       THEN IF p.ic_group_id = NULL THEN <<>>
            ELSE LET ics == SortedSeq(w.ic_groups[p.ic_group_id])
                 IN [k \in 1..Len(ics) |->
                       [base EXCEPT !.avatar_id = member_id, !.ic_id = ics[k],
                                    !.description = Desc("<=>", member_id, ics[k], pid),
                                    !.session_type = IC_SESSION]]
       ELSE IF p.session_type = IC_SESSION /\ p.ic_id # NULL
       THEN <<[base EXCEPT !.avatar_id = member_id, !.ic_id = p.ic_id,
                           !.description = Desc("<=>", member_id, p.ic_id, pid),
                           !.session_type = IC_SESSION]>>
       ELSE IF p.session_type = REQUEST_SESSION /\ p.request_id # NULL
       THEN <<[base EXCEPT !.avatar_id = member_id, !.request_id = p.request_id,
                           !.description = Desc("<=>", member_id, p.request_id, pid),
                           !.session_type = REQUEST_SESSION]>>
       ELSE IF p.session_type = AVATAR_LINK /\ p.avatar_id # NULL
       THEN <<[base EXCEPT !.avatar_id = p.avatar_id,
                           !.destination_avatar_id = member_id,
                           !.description = Desc("Link", p.avatar_id, member_id, pid),
                           !.session_type = AVATAR_LINK]>>
       ELSE <<>>

\* for parent_session in active_group_sessions: ... new_workers += 1
RECURSIVE ExtendParents(_, _, _, _)
ExtendParents(w, parents, member_id, count) ==
    IF parents = <<>> THEN [w |-> w, count |-> count]
    ELSE LET rows == NewLeavesFor(w, Head(parents), member_id)
         IN ExtendParents(AddLeavesOf(w, rows), Tail(parents), member_id,
                          count + Len(rows))

\* The ic branch only counts: for avatar_member in parent.avatar_group.members
RECURSIVE CountAvatarMembers(_, _)
CountAvatarMembers(w, parents) ==
    IF parents = <<>> THEN 0
    ELSE Cardinality(w.avatar_groups[w.sessions[Head(parents)].avatar_group_id])
         + CountAvatarMembers(w, Tail(parents))

handle_add_member_to_group(w, data) ==
    IF data.group_type = "ic"
    THEN IF data.group_name \notin DOMAIN w.ic_groups \/ data.member_id \notin ICs
         THEN Reply(w, "error", 0)
         ELSE IF data.member_id \in w.ic_groups[data.group_name]
         THEN Reply(w, "success", 0)
         ELSE LET w1 == Commit([w EXCEPT !.ic_groups[data.group_name] =
                                             @ \cup {data.member_id}])
                  parents == ActiveGroupSessions(w1, "ic_group_id", data.group_name)
              IN IF \E i \in 1..Len(parents) :
                       w1.sessions[parents[i]].avatar_group_id = NULL
                 THEN Error(w1)
                 ELSE Reply(w1, "success", CountAvatarMembers(w1, parents))
    ELSE IF data.group_type = "avatar"
    THEN IF data.group_name \notin DOMAIN w.avatar_groups
            \/ data.member_id \notin DOMAIN w.avatars
         THEN Reply(w, "error", 0)
         ELSE IF data.member_id \in w.avatar_groups[data.group_name]
         THEN Reply(w, "success", 0)
         ELSE LET w1 == Commit([w EXCEPT !.avatar_groups[data.group_name] =
                                             @ \cup {data.member_id}])
                  parents == ActiveGroupSessions(w1, "avatar_group_id", data.group_name)
                  r == ExtendParents(w1, parents, data.member_id, 0)
              IN Reply(r.w, "success", r.count)
    ELSE IF data.group_name \notin DOMAIN w.request_groups
            \/ data.member_id \notin Requests
         THEN Reply(w, "error", 0)
         ELSE IF data.member_id \in w.request_groups[data.group_name]
         THEN Reply(w, "success", 0)
         ELSE Reply(Commit([w EXCEPT !.request_groups[data.group_name] =
                                         @ \cup {data.member_id}]), "success", 0)

\* Session.parent_session.has(is_group_session=True, status=RUNNING,
\* <column>=group.id), Session.<member column> == member_id
SessionsOfMember(w, column, group_id, member_column, member_id) ==
    SortedSeq({i \in DOMAIN w.sessions :
                 /\ w.sessions[i].parent_session_id \in DOMAIN w.sessions
                 /\ LET p == w.sessions[w.sessions[i].parent_session_id]
                    IN p.is_group_session /\ p.status = RUNNING /\ p[column] = group_id
                 /\ w.sessions[i][member_column] = member_id})

RemoveMember(w, table, column, member_column, data) ==
    IF data.group_name \notin DOMAIN w[table] THEN Reply(w, "error", 0)
    ELSE IF data.member_id \notin w[table][data.group_name] THEN Reply(w, "success", 0)
    ELSE LET r == StopEach(w, SessionsOfMember(w, column, data.group_name,
                                               member_column, data.member_id), 0)
         IN Reply(Commit([r.w EXCEPT ![table][data.group_name] = @ \ {data.member_id}]),
                  "success", r.count)

handle_remove_member_from_group(w, data) ==
    IF data.group_type = "ic"
    THEN RemoveMember(w, "ic_groups", "ic_group_id", "ic_id", data)
    ELSE IF data.group_type = "avatar"
    THEN RemoveMember(w, "avatar_groups", "avatar_group_id", "avatar_id", data)
    ELSE RemoveMember(w, "request_groups", "request_group_id", "request_id", data)

\* ----------------------------------------------------------------- removal
\* cascade="all, delete-orphan": the rows deleted with a set of sessions.
RECURSIVE WithChildren(_, _)
WithChildren(w, ids) ==
    LET more == ids \cup {c \in DOMAIN w.sessions : w.sessions[c].parent_session_id \in ids}
    IN IF more = ids THEN ids ELSE WithChildren(w, more)

handle_remove_entity(w, data) ==
    IF data.entity_type = "avatar"
    THEN IF data.id \notin DOMAIN w.avatars THEN Reply(w, "success", 0)
         ELSE LET refs == {i \in DOMAIN w.sessions : ReferencesAvatar(w.sessions[i], data.id)}
                  source == SortedSeq({i \in refs : w.sessions[i].avatar_id = data.id})
                  dest == SortedSeq({i \in refs :
                                       w.sessions[i].destination_avatar_id = data.id})
                  r == StopEach(w, source \o dest, 0)
                  gone == WithChildren(r.w, refs)
                  w1 == Commit([r.w EXCEPT
                          !.sessions = [i \in DOMAIN r.w.sessions \ gone |-> r.w.sessions[i]],
                          !.avatars = MapPop(@, data.id),
                          !.avatar_groups = [g \in DOMAIN @ |-> @[g] \ {data.id}]])
              IN Reply([w1 EXCEPT !.avatar_cache = MapPop(@, data.id)], "success", r.count)
    ELSE IF data.entity_type = "ic"
    THEN IF data.id \notin ICs THEN Reply(w, "success", 0) ELSE Error(w)
    ELSE IF data.entity_type = "request"
    THEN IF data.id \notin Requests THEN Reply(w, "success", 0) ELSE Error(w)
    ELSE Reply(w, "error", 0)

\* db_session.delete(group): the memberships go with it, and the rows that
\* referenced the group keep a NULL in the column.
RemoveGroup(w, table, column, data) ==
    IF data.group_name \notin DOMAIN w[table] THEN Reply(w, "success", 0)
    ELSE Reply(Commit([w EXCEPT
                 ![table] = MapPop(@, data.group_name),
                 !.sessions = [i \in DOMAIN @ |->
                                 IF @[i][column] = data.group_name
                                 THEN [@[i] EXCEPT ![column] = NULL] ELSE @[i]]]),
               "success", 0)

handle_remove_group(w, data) ==
    IF data.group_type = "avatar"
    THEN RemoveGroup(w, "avatar_groups", "avatar_group_id", data)
    ELSE IF data.group_type = "ic"
    THEN RemoveGroup(w, "ic_groups", "ic_group_id", data)
    ELSE IF data.group_type = "request"
    THEN RemoveGroup(w, "request_groups", "request_group_id", data)
    ELSE Reply(w, "error", 0)

\* -------------------------------------------------------------- fail, redo
handle_fail_sessions_on_target(w, data) ==
    IF data.avatar_group # NULL /\ data.avatar_group \notin DOMAIN w.avatar_groups
    THEN Reply(w, "error", 0)
    ELSE LET parent_sessions ==
                 IF data.avatar_group = NULL THEN {}
                 ELSE {i \in DOMAIN w.sessions :
                         w.sessions[i].avatar_group_id = data.avatar_group}
             child_sessions_ ==
                 {i \in DOMAIN w.sessions :
                    /\ w.sessions[i].parent_session_id \in parent_sessions
                    /\ w.sessions[i].status = RUNNING}
             direct_sessions ==
                 IF data.avatar_id = NULL THEN {}
                 ELSE {i \in DOMAIN w.sessions :
                         /\ w.sessions[i].status = RUNNING
                         /\ ReferencesAvatar(w.sessions[i], data.avatar_id)}
             sessions_to_fail == child_sessions_ \cup direct_sessions
             w1 == [w EXCEPT !.pending = @ \cup {i \in parent_sessions :
                                                   w.sessions[i].status # FAILED}]
         IN IF sessions_to_fail = {} THEN Reply(w1, "success", 0)
            ELSE LET r == FailEach(w1, SortedSeq(sessions_to_fail), 0)
                 IN Reply(Commit(r.w), "success", r.count)

handle_fail_all_running_sessions(w, data) ==
    LET running_sessions == {i \in DOMAIN w.sessions : w.sessions[i].status = RUNNING}
        r == FailEach(w, SortedSeq(running_sessions), 0)
    IN Reply(r.w, "success", r.count)

RECURSIVE RedoEach(_, _, _)
RedoEach(w, ids, count) ==
    IF ids = <<>> THEN [w |-> w, count |-> count]
    ELSE LET old == w.sessions[Head(ids)]
             new_id == w.next_session_id
             new_session ==
                 [Session EXCEPT
                    !.parent_session_id = old.parent_session_id,
                    !.is_group_session = old.is_group_session,
                    !.description = [old.description EXCEPT !.redo = @ + 1],
                    !.avatar_id = old.avatar_id, !.ic_id = old.ic_id,
                    !.request_id = old.request_id,
                    !.destination_avatar_id = old.destination_avatar_id,
                    !.avatar_group_id = old.avatar_group_id,
                    !.ic_group_id = old.ic_group_id,
                    !.session_type = old.session_type,
                    !.start_time = Utcnow(w, w.reads + 1),
                    !.end_time = old.end_time,
                    !.status = SCHEDULED]
             w1 == _spawn_worker_for_session(
                       AddSession([w EXCEPT !.reads = @ + 1], new_session), new_id)
         IN IF old.is_group_session
            THEN RedoEach(Commit(SetStatus(w, Head(ids), RESTARTED)), Tail(ids), count)
            ELSE RedoEach(Commit(SetStatus(w1, Head(ids), RESTARTED)), Tail(ids), count + 1)

\* A redo that passes over the parent rows.
handle_redo_failed_sessions_leaves_only(w, data) ==
    LET failed_sessions == {i \in DOMAIN w.sessions :
                              /\ w.sessions[i].status = FAILED
                              /\ ~w.sessions[i].is_group_session}
        r == RedoEach(w, SortedSeq(failed_sessions), 0)
    IN Reply(r.w, "success", r.count)

\* A redo that selects the RESTARTED rows as well.
handle_redo_failed_sessions_again(w, data) ==
    LET failed_sessions == {i \in DOMAIN w.sessions :
                              w.sessions[i].status \in {FAILED, RESTARTED}}
        r == RedoEach(w, SortedSeq(failed_sessions), 0)
    IN Reply(r.w, "success", r.count)

handle_redo_failed_sessions(w, data) ==
    LET failed_sessions == {i \in DOMAIN w.sessions : w.sessions[i].status = FAILED}
        r == RedoEach(w, SortedSeq(failed_sessions), 0)
    IN Reply(r.w, "success", r.count)

\* ------------------------------------------------------------------ inputs
\* The commands a client sends, over a representative part of the catalog.
Durations == {NULL, 1}
TickAts == {0, 2}
FailSets == {{}, {1}}
NewPhoto == <<8>>
NewInfo == <<233>>

StartIcData ==
    [avatar_id : {NULL, 1}, avatar_group : {NULL} \cup GroupNames,
     ic_id : {1}, duration : Durations]

StartRequestData ==
    [avatar_id : {NULL, 1}, avatar_group : {NULL} \cup GroupNames,
     request_id : {NULL, 1}, request_group : {NULL} \cup GroupNames,
     duration : {NULL}]

StartLinkData ==
    [source_id : {1, 2}, dest_id : {NULL, 1, 2},
     dest_group : {NULL} \cup GroupNames, duration : {NULL}]

StartGroupData == [avatar_group : GroupNames, ic_group : GroupNames, duration : Durations]

StopSessionData == [session_id : 1..MaxSessions]

UpdateEntityData ==
    [entity_type : {"avatar"}, id : {1}, has_photo : {TRUE},
     photo_data_b64 : {NewPhoto}, has_info : {TRUE}, info_data : {NewInfo}]
    \cup [entity_type : {"request"}, id : {1}, has_photo : {FALSE},
          photo_data_b64 : {NewPhoto}, has_info : {TRUE}, info_data : {NewInfo}]

MemberData ==
    [group_type : {"avatar", "ic", "request"}, group_name : GroupNames, member_id : {2}]

RemoveEntityData == [entity_type : {"avatar", "ic", "request"}, id : {1}]

GroupData == [group_type : {"avatar", "ic", "request"}, group_name : GroupNames]

FailTargetData == [avatar_id : {NULL, 1}, avatar_group : {NULL} \cup GroupNames]

NoData == [none : {NULL}]

\* ----------------------------------------------------------------- actions
\* One iteration of the accept loop of run(): the handler ran to its reply.
Handled(action, data, r) ==
    /\ handler = Idle
    /\ handler' = Idle
    /\ r.w.next_session_id <= MaxSessions + 1
    /\ r.w.next_pid <= MaxPid + 1
    /\ r.w.tick_at = 0 \/ (r.w.tick_at <= r.w.reads /\ now < MaxClock)
    /\ r.w.spawn_fail \subseteq 1..r.w.spawns
    /\ sessions' = r.w.sessions
    /\ next_session_id' = r.w.next_session_id
    /\ avatars' = r.w.avatars
    /\ avatar_groups' = r.w.avatar_groups
    /\ ic_groups' = r.w.ic_groups
    /\ request_groups' = r.w.request_groups
    /\ active_workers' = r.w.active_workers
    /\ procs' = r.w.procs
    /\ next_pid' = r.w.next_pid
    /\ avatar_cache' = r.w.avatar_cache
    /\ ic_cache' = r.w.ic_cache
    /\ request_cache' = r.w.request_cache
    /\ pending' = r.w.pending
    /\ now' = IF r.w.tick_at # 0 THEN now + 1 ELSE now
    /\ served' = served + 1
    /\ last' = [action |-> action, data |-> data, status |-> r.status, count |-> r.count]

StartIc(limit) ==
    /\ served < limit
    /\ \E data \in StartIcData, t \in TickAts, f \in FailSets :
          Handled("start_ic", data, handle_start_ic(World(t, f), data))

StartRequest(limit) ==
    /\ served < limit
    /\ \E data \in StartRequestData, t \in TickAts, f \in FailSets :
          Handled("start_request", data, handle_start_request(World(t, f), data))

StartLink(limit) ==
    /\ served < limit
    /\ \E data \in StartLinkData, t \in TickAts, f \in FailSets :
          Handled("start_link", data, handle_start_link(World(t, f), data))

StartGroup(limit) ==
    /\ served < limit
    /\ \E data \in StartGroupData, t \in TickAts, f \in FailSets :
          Handled("start_group", data, handle_start_group(World(t, f), data))

StopSession(limit) ==
    /\ served < limit
    /\ \E data \in StopSessionData, t \in TickAts, f \in FailSets :
          Handled("stop_session", data, handle_stop_session(World(t, f), data))

UpdateEntity(limit) ==
    /\ served < limit
    /\ \E data \in UpdateEntityData, t \in TickAts, f \in FailSets :
          Handled("update_entity", data, handle_update_entity(World(t, f), data))

AddMemberToGroup(limit) ==
    /\ served < limit
    /\ \E data \in MemberData, t \in TickAts, f \in FailSets :
          Handled("add_member_to_group", data, handle_add_member_to_group(World(t, f), data))

RemoveMemberFromGroup(limit) ==
    /\ served < limit
    /\ \E data \in MemberData, t \in TickAts, f \in FailSets :
          Handled("remove_member_from_group", data, handle_remove_member_from_group(World(t, f), data))

RemoveEntity(limit) ==
    /\ served < limit
    /\ \E data \in RemoveEntityData, t \in TickAts, f \in FailSets :
          Handled("remove_entity", data, handle_remove_entity(World(t, f), data))

RemoveGroupCmd(limit) ==
    /\ served < limit
    /\ \E data \in GroupData, t \in TickAts, f \in FailSets :
          Handled("remove_group", data, handle_remove_group(World(t, f), data))

FailSessionsOnTarget(limit) ==
    /\ served < limit
    /\ \E data \in FailTargetData, t \in TickAts, f \in FailSets :
          Handled("fail_sessions_on_target", data, handle_fail_sessions_on_target(World(t, f), data))

FailAllRunning(limit) ==
    /\ served < limit
    /\ \E data \in NoData, t \in TickAts, f \in FailSets :
          Handled("fail_all_running", data, handle_fail_all_running_sessions(World(t, f), data))

RedoFailed(limit) ==
    /\ served < limit
    /\ \E data \in NoData, t \in TickAts, f \in FailSets :
          Handled("redo_failed", data, handle_redo_failed_sessions(World(t, f), data))

\* ACTION_HANDLERS.get(action) finds no handler: the reply is an error.
UnknownAction(limit) ==
    /\ served < limit
    /\ handler = Idle
    /\ handler' = Idle
    /\ served' = served + 1
    /\ last' = [action |-> "unknown", data |-> [none |-> NULL], status |-> "error",
                count |-> 0]
    /\ UNCHANGED <<sessions, next_session_id, avatars, avatar_groups, ic_groups,
                   request_groups, active_workers, procs, next_pid, avatar_cache,
                   ic_cache, request_cache, pending, now>>

Step(action) ==
    [action |-> action, data |-> [none |-> NULL], status |-> "success", count |-> 0]

\* A start of the daemon without the recovery at the top of run().
DaemonRestartNoRecovery ==
    /\ active_workers' = EmptyMap
    /\ procs' = EmptyMap
    /\ avatar_cache' = EmptyMap
    /\ ic_cache' = EmptyMap
    /\ request_cache' = EmptyMap
    /\ pending' = {}
    /\ handler' = Idle
    /\ last' = Step("restart")
    /\ UNCHANGED <<sessions, next_session_id, avatars, avatar_groups, ic_groups,
                   request_groups, next_pid, now, served>>

\* The daemon process ends (its daemonic children with it) and a new one
\* starts: __init__, then the recovery at the top of run().
DaemonRestart ==
    /\ sessions' = [i \in DOMAIN sessions |->
                      IF sessions[i].status = RUNNING
                      THEN [sessions[i] EXCEPT !.status = FAILED] ELSE sessions[i]]
    /\ active_workers' = EmptyMap
    /\ procs' = EmptyMap
    /\ avatar_cache' = EmptyMap
    /\ ic_cache' = EmptyMap
    /\ request_cache' = EmptyMap
    /\ pending' = {}
    /\ handler' = Idle
    /\ last' = Step("restart")
    /\ UNCHANGED <<next_session_id, avatars, avatar_groups, ic_groups,
                   request_groups, next_pid, now, served>>

\* A worker that reaches its deadline and exits without _update_status.
WorkerExitSilently ==
    \E pid \in DOMAIN procs :
        /\ procs[pid].alive
        /\ procs[pid].end_time # NULL
        /\ now >= procs[pid].end_time
        /\ procs' = [procs EXCEPT ![pid].alive = FALSE]
        /\ last' = Step("worker_exit")
        /\ UNCHANGED <<sessions, next_session_id, avatars, avatar_groups, ic_groups,
                       request_groups, active_workers, next_pid, avatar_cache,
                       ic_cache, request_cache, pending, now, served, handler>>

\* HealingWorker.run reached its deadline: _update_status(COMPLETED), exit.
WorkerComplete ==
    \E pid \in DOMAIN procs :
        /\ procs[pid].alive
        /\ procs[pid].end_time # NULL
        /\ now >= procs[pid].end_time
        /\ sessions' = [i \in DOMAIN sessions |->
                          IF i = procs[pid].session_id
                          THEN [sessions[i] EXCEPT !.status = COMPLETED,
                                                   !.worker_pid = NULL]
                          ELSE sessions[i]]
        /\ procs' = [procs EXCEPT ![pid].alive = FALSE]
        /\ last' = Step("worker_exit")
        /\ UNCHANGED <<next_session_id, avatars, avatar_groups, ic_groups,
                       request_groups, active_workers, next_pid, avatar_cache,
                       ic_cache, request_cache, pending, now, served, handler>>

Tick ==
    /\ now < MaxClock
    /\ now' = now + 1
    /\ last' = Step("tick")
    /\ UNCHANGED <<sessions, next_session_id, avatars, avatar_groups, ic_groups,
                   request_groups, active_workers, procs, next_pid, avatar_cache,
                   ic_cache, request_cache, pending, served, handler>>

\* The clock of a worker that waits in `while utcnow() < self.end_time`: time
\* passes as long as a live worker has its deadline ahead.
TickToDeadline ==
    /\ \E pid \in DOMAIN procs :
          /\ procs[pid].alive
          /\ procs[pid].end_time # NULL
          /\ now < procs[pid].end_time
    /\ now' = now + 1
    /\ last' = Step("tick")
    /\ UNCHANGED <<sessions, next_session_id, avatars, avatar_groups, ic_groups,
                   request_groups, active_workers, procs, next_pid, avatar_cache,
                   ic_cache, request_cache, pending, served, handler>>


\* handle_stop_session in the steps of its loop. Every step ends in a commit,
\* so the states between the steps are the ones the workers and any other
\* reader of the database can see while the handler runs.
\* The rows of sessions_to_stop as the query loaded them: the ORM keeps showing
\* these values until a commit of the daemon expires them.
LoadedStatus(ids) == [i \in {ids[k] : k \in 1..Len(ids)} |-> StatusOf(World(0, {}), i)]

\* sessions_to_stop of handle_stop_session: the row itself, then its children.
SessionsToStop(sid) ==
    <<sid>> \o (IF sessions[sid].is_group_session \/ sessions[sid].parent_session_id = NULL
               THEN child_sessions(World(0, {}), sid) ELSE <<>>)

\* A stop_session that starts although a handler is executing.
StopBeginAnyTime(limit) ==
    /\ served < limit
    /\ \E data \in StopSessionData :
          /\ data.session_id \in DOMAIN sessions
          /\ handler' =
                [pc |-> "stop", session_id |-> data.session_id,
                 todo |-> SessionsToStop(data.session_id),
                 loaded |-> LoadedStatus(SessionsToStop(data.session_id)),
                 count |-> 0]
          /\ last' = [action |-> "stop_session_begin", data |-> data,
                      status |-> "success", count |-> 0]
    /\ UNCHANGED <<sessions, next_session_id, avatars, avatar_groups, ic_groups,
                   request_groups, active_workers, procs, next_pid, avatar_cache,
                   ic_cache, request_cache, pending, now, served>>

\* The loop accepted a stop_session: the row is looked up and sessions_to_stop
\* is built, the row itself first, then its children. A missing row is
\* answered with an error at once.
StopBegin(limit) ==
    /\ served < limit
    /\ handler = Idle
    /\ \E data \in StopSessionData :
          \/ /\ data.session_id \in DOMAIN sessions
             /\ handler' =
                   [pc |-> "stop", session_id |-> data.session_id,
                    todo |-> SessionsToStop(data.session_id),
                    loaded |-> LoadedStatus(SessionsToStop(data.session_id)),
                    count |-> 0]
             /\ last' = [action |-> "stop_session_begin", data |-> data,
                         status |-> "success", count |-> 0]
             /\ UNCHANGED served
          \/ /\ data.session_id \notin DOMAIN sessions
             /\ handler' = Idle
             /\ last' = [action |-> "stop_session", data |-> data,
                         status |-> "error", count |-> 0]
             /\ served' = served + 1
    /\ UNCHANGED <<sessions, next_session_id, avatars, avatar_groups, ic_groups,
                   request_groups, active_workers, procs, next_pid, avatar_cache,
                   ic_cache, request_cache, pending, now>>

\* One turn of `for s in sessions_to_stop`: a row the ORM shows as RUNNING is
\* stopped and the stop is committed. s.status is the value loaded with the
\* row, or, after a commit has expired it, the value read now.
StopOne ==
    /\ handler # Idle
    /\ handler.pc = "stop"
    /\ handler.todo # <<>>
    /\ LET sid == Head(handler.todo)
           seen == IF sid \in DOMAIN handler.loaded THEN handler.loaded[sid]
                   ELSE StatusOf(World(0, {}), sid)
           w == EndSingle(World(0, {}), sid, STOPPED)
       IN IF seen = RUNNING
          THEN /\ sessions' = w.sessions
               /\ active_workers' = w.active_workers
               /\ procs' = w.procs
               /\ pending' = w.pending
               /\ handler' = [handler EXCEPT !.todo = Tail(@), !.count = @ + 1,
                                             !.loaded = EmptyMap]
          ELSE /\ handler' = [handler EXCEPT !.todo = Tail(@),
                                             !.loaded = MapPut(@, sid, seen)]
               /\ UNCHANGED <<sessions, active_workers, procs, pending>>
    /\ last' = Step("stop_session_step")
    /\ UNCHANGED <<next_session_id, avatars, avatar_groups, ic_groups,
                   request_groups, next_pid, avatar_cache, ic_cache,
                   request_cache, now, served>>

\* After the loop: session.status = STOPPED, commit, and the reply is sent.
StopEnd ==
    /\ handler # Idle
    /\ handler.pc = "stop"
    /\ handler.todo = <<>>
    /\ LET w == Commit(SetStatus(World(0, {}), handler.session_id, STOPPED))
       IN /\ sessions' = w.sessions
          /\ pending' = w.pending
    /\ handler' = Idle
    /\ served' = served + 1
    /\ last' = [action |-> "stop_session", data |-> [session_id |-> handler.session_id],
                status |-> "success", count |-> handler.count]
    /\ UNCHANGED <<next_session_id, avatars, avatar_groups, ic_groups,
                   request_groups, active_workers, procs, next_pid, avatar_cache,
                   ic_cache, request_cache, now>>

\* handle_update_entity in the steps of its restart loop: the commit of the
\* entity, then for each affected session the commit of the stop, the start of
\* the new process and the commit of RUNNING.
UpdateBegin(limit) ==
    /\ served < limit
    /\ handler = Idle
    /\ \E data \in UpdateEntityData :
          \/ /\ data.entity_type = "avatar"
             /\ data.id \in DOMAIN avatars
             /\ ~(data.has_photo /\ ~IsBytes(data.photo_data_b64))
             /\ LET w == Commit([World(0, {}) EXCEPT
                                   !.avatars[data.id] =
                                       [photo_data |-> IF data.has_photo
                                                       THEN data.photo_data_b64
                                                       ELSE avatars[data.id].photo_data,
                                        info_data |-> IF data.has_info
                                                      THEN data.info_data
                                                      ELSE avatars[data.id].info_data],
                                   !.avatar_cache = MapPop(@, data.id)])
                    affected == {i \in DOMAIN w.sessions :
                                    /\ w.sessions[i].status = RUNNING
                                    /\ ReferencesAvatar(w.sessions[i], data.id)}
                IN /\ avatars' = w.avatars
                   /\ avatar_cache' = w.avatar_cache
                   /\ sessions' = w.sessions
                   /\ pending' = w.pending
                   /\ handler' = [pc |-> "update", entity_id |-> data.id,
                                  affected |-> affected, todo |-> SortedSeq(affected),
                                  count |-> 0, phase |-> "stop", pid |-> NULL]
             /\ last' = [action |-> "update_entity_begin", data |-> data,
                         status |-> "success", count |-> 0]
             /\ UNCHANGED served
          \/ /\ \/ data.entity_type # "avatar"
                \/ data.id \notin DOMAIN avatars
                \/ data.has_photo /\ ~IsBytes(data.photo_data_b64)
             /\ handler' = Idle
             /\ pending' = IF data.entity_type = "avatar" /\ data.id \in DOMAIN avatars
                           THEN {} ELSE pending
             /\ last' = [action |-> "update_entity", data |-> data,
                         status |-> "error", count |-> 0]
             /\ served' = served + 1
             /\ UNCHANGED <<avatars, avatar_cache, sessions>>
    /\ UNCHANGED <<next_session_id, avatar_groups, ic_groups, request_groups,
                   active_workers, procs, next_pid, ic_cache, request_cache, now>>

\* refresh(session); _stop_single_session(session.id): a row that is still
\* RUNNING is stopped and the stop is committed; any other row is passed over.
UpdateStop ==
    /\ handler # Idle
    /\ handler.pc = "update"
    /\ handler.phase = "stop"
    /\ handler.todo # <<>>
    /\ LET r == _stop_single_session(World(0, {}), Head(handler.todo))
       IN /\ sessions' = r.w.sessions
          /\ active_workers' = r.w.active_workers
          /\ procs' = r.w.procs
          /\ pending' = r.w.pending
          /\ handler' = IF r.ok THEN [handler EXCEPT !.phase = "spawn"]
                        ELSE [handler EXCEPT !.todo = Tail(@)]
    /\ last' = Step("update_entity_step")
    /\ UNCHANGED <<next_session_id, avatars, avatar_groups, ic_groups,
                   request_groups, next_pid, avatar_cache, ic_cache,
                   request_cache, now, served>>

\* _spawn_worker_for_session up to process.start(): the payloads are loaded
\* and the process runs, the row not yet written; or the except branch.
UpdateSpawn ==
    /\ handler # Idle
    /\ handler.pc = "update"
    /\ handler.phase = "spawn"
    /\ next_pid <= MaxPid
    /\ \E f \in FailSets :
          LET sid == Head(handler.todo)
              w == _spawn_worker_for_session(World(0, f), sid)
              started == sid \in DOMAIN w.active_workers
          IN /\ avatar_cache' = w.avatar_cache
             /\ ic_cache' = w.ic_cache
             /\ request_cache' = w.request_cache
             /\ procs' = w.procs
             /\ next_pid' = w.next_pid
             /\ IF started
                THEN /\ handler' = [handler EXCEPT !.phase = "commit",
                                                   !.pid = w.active_workers[sid]]
                     /\ UNCHANGED <<sessions, pending>>
                ELSE /\ handler' = [handler EXCEPT !.phase = "stop", !.todo = Tail(@)]
                     /\ sessions' = w.sessions
                     /\ pending' = w.pending
    /\ last' = Step("update_entity_step")
    /\ UNCHANGED <<next_session_id, avatars, avatar_groups, ic_groups,
                   request_groups, active_workers, now, served>>

\* session.status = RUNNING; session.worker_pid = process.pid; commit; the
\* handle is kept.
UpdateCommit ==
    /\ handler # Idle
    /\ handler.pc = "update"
    /\ handler.phase = "commit"
    /\ LET sid == Head(handler.todo)
           w == Commit([SetStatus(World(0, {}), sid, RUNNING) EXCEPT
                            !.sessions[sid].worker_pid = handler.pid])
       IN /\ sessions' = w.sessions
          /\ pending' = w.pending
          /\ active_workers' = MapPut(active_workers, sid, handler.pid)
    /\ handler' = [handler EXCEPT !.phase = "stop", !.todo = Tail(@),
                                  !.count = @ + 1, !.pid = NULL]
    /\ last' = Step("update_entity_step")
    /\ UNCHANGED <<next_session_id, avatars, avatar_groups, ic_groups,
                   request_groups, procs, next_pid, avatar_cache, ic_cache,
                   request_cache, now, served>>

\* After the loop the reply is sent.
UpdateEnd ==
    /\ handler # Idle
    /\ handler.pc = "update"
    /\ handler.phase = "stop"
    /\ handler.todo = <<>>
    /\ handler' = Idle
    /\ served' = served + 1
    /\ last' = [action |-> "update_entity",
                data |-> [entity_type |-> "avatar", id |-> handler.entity_id],
                status |-> "success", count |-> handler.count]
    /\ UNCHANGED <<sessions, next_session_id, avatars, avatar_groups, ic_groups,
                   request_groups, active_workers, procs, next_pid, avatar_cache,
                   ic_cache, request_cache, pending, now>>

Init ==
    /\ sessions = EmptyMap
    /\ next_session_id = 1
    /\ avatars = [a \in AvatarIds |-> [photo_data |-> InitPhoto, info_data |-> InitInfo]]
    /\ \E members \in {{1}, {1, 2}, {1, 3}} : avatar_groups = [g \in GroupNames |-> members]
    /\ ic_groups = [g \in GroupNames |-> {1}]
    /\ \E members \in {{1, 2}, {1, 3}} : request_groups = [g \in GroupNames |-> members]
    /\ active_workers = EmptyMap
    /\ procs = EmptyMap
    /\ next_pid = 1
    /\ avatar_cache = EmptyMap
    /\ ic_cache = EmptyMap
    /\ request_cache = EmptyMap
    /\ pending = {}
    /\ now = 1
    /\ served = 0
    /\ handler = Idle
    /\ last = [action |-> "init", data |-> [none |-> NULL], status |-> "success",
               count |-> 0]

Next ==
    \/ StartIc(MaxCommands)
    \/ StartRequest(MaxCommands)
    \/ StartLink(MaxCommands)
    \/ StartGroup(MaxCommands)
    \/ StopSession(MaxCommands)
    \/ UpdateEntity(MaxCommands)
    \/ AddMemberToGroup(MaxCommands)
    \/ RemoveMemberFromGroup(MaxCommands)
    \/ RemoveEntity(MaxCommands)
    \/ RemoveGroupCmd(MaxCommands)
    \/ FailSessionsOnTarget(MaxCommands)
    \/ FailAllRunning(MaxCommands)
    \/ RedoFailed(MaxCommands)
    \/ UnknownAction(MaxCommands)
    \/ DaemonRestart
    \/ WorkerComplete
    \/ Tick

Spec == Init /\ [][Next]_vars

\* The commands that work on an avatar-group parent and its leaves, one
\* command deeper than Spec.
MembershipCommands == MaxCommands + 1

NextMembership ==
    \/ StartIc(MembershipCommands)
    \/ StartGroup(MembershipCommands)
    \/ StopSession(MembershipCommands)
    \/ AddMemberToGroup(MembershipCommands)
    \/ RemoveMemberFromGroup(MembershipCommands)
    \/ FailSessionsOnTarget(MembershipCommands)
    \/ WorkerComplete
    \/ Tick

SpecMembership == Init /\ [][NextMembership]_vars

\* The accept loop with stop_session shown step by step, so that workers run
\* between the commits of the handler.
NextStopSteps ==
    \/ StartIc(MaxCommands)
    \/ StartGroup(MaxCommands)
    \/ FailAllRunning(MaxCommands)
    \/ StopBegin(MaxCommands)
    \/ StopOne
    \/ StopEnd
    \/ WorkerComplete
    \/ Tick

SpecStopSteps == Init /\ [][NextStopSteps]_vars

\* The accept loop with update_entity shown step by step.
NextUpdateSteps ==
    \/ StartIc(MaxCommands)
    \/ StartLink(MaxCommands)
    \/ UpdateBegin(MaxCommands)
    \/ UpdateStop
    \/ UpdateSpawn
    \/ UpdateCommit
    \/ UpdateEnd
    \/ WorkerComplete
    \/ Tick

SpecUpdateSteps == Init /\ [][NextUpdateSteps]_vars

\* ------------------------------------------------------------------ claims
Rows == DOMAIN sessions

Leaves == {i \in Rows : ~sessions[i].is_group_session}

Parents == {i \in Rows : sessions[i].is_group_session}

\* The daemon holds a process handle for row i whose pid is the row's worker_pid.
HasWorker(i) ==
    /\ i \in DOMAIN active_workers
    /\ active_workers[i] = sessions[i].worker_pid

StartActions == {"start_ic", "start_request", "start_link", "start_group"}

\* C1 as stated: between commands every RUNNING row, leaf or parent, has one
\* entry in active_workers, and the pid of that entry is the row's worker_pid.
C1_EveryRunningRowHasWorker ==
    \A i \in Rows : sessions[i].status = RUNNING => HasWorker(i)

\* C1 amended: between commands every RUNNING leaf has one entry in
\* active_workers whose pid is the row's worker_pid; a RUNNING parent has none.
C1_RunningLeafHasWorker ==
    /\ \A i \in Leaves : sessions[i].status = RUNNING => HasWorker(i)
    /\ \A i \in Parents : i \notin DOMAIN active_workers

\* A start command left a RUNNING leaf with its handle under a RUNNING parent
\* that has no handle.
C1_Witness ==
    /\ last.action \in StartActions
    /\ \E i \in Leaves :
          /\ sessions[i].status = RUNNING
          /\ HasWorker(i)
          /\ sessions[i].parent_session_id \in Parents
          /\ sessions[sessions[i].parent_session_id].status = RUNNING
          /\ sessions[i].parent_session_id \notin DOMAIN active_workers

\* C2 as stated: a row in a terminal status keeps that status in every step,
\* except that redo_failed may take FAILED to RESTARTED.
C2_TerminalIsFinal ==
    [][\A i \in Rows :
          (sessions[i].status \in Terminal /\ i \in DOMAIN sessions')
          => \/ sessions'[i].status = sessions[i].status
             \/ /\ last'.action = "redo_failed"
                /\ sessions[i].status = FAILED
                /\ sessions'[i].status = RESTARTED]_vars

\* C3 as stated: between commands worker_pid is non-null exactly for the
\* RUNNING rows.
C3_PidIffRunning ==
    \A i \in Rows : (sessions[i].worker_pid # NULL) <=> (sessions[i].status = RUNNING)

\* C3 for the rows the startup recovery failed: FAILED rows have no worker_pid.
C3_FailedHasNoPid ==
    \A i \in Rows : sessions[i].status = FAILED => sessions[i].worker_pid = NULL

\* Rows inserted by the step, and the RUNNING leaves under a parent.
NewRows == DOMAIN sessions' \ DOMAIN sessions

ChildrenOf(p) == {c \in Rows : sessions[c].parent_session_id = p}

\* The process of row c, as the daemon's map has it, is alive.
LiveHandle(c) ==
    /\ c \in DOMAIN active_workers
    /\ active_workers[c] \in DOMAIN procs
    /\ procs[active_workers[c]].alive

\* C4: a stop_session on a RUNNING parent leaves the parent STOPPED, every
\* child that was RUNNING STOPPED with worker_pid cleared, and no live process
\* in active_workers for any child.
C4_StopParentStopsChildren ==
    [][(/\ last'.action = "stop_session"
        /\ last'.data.session_id \in Parents
        /\ sessions[last'.data.session_id].status = RUNNING)
       => LET p == last'.data.session_id
          IN /\ sessions'[p].status = STOPPED
             /\ \A c \in ChildrenOf(p) :
                   /\ sessions[c].status = RUNNING
                      => /\ sessions'[c].status = STOPPED
                         /\ sessions'[c].worker_pid = NULL
                   /\ ~LiveHandle(c)']_vars

\* A stop_session stopped a parent and two RUNNING children of it.
C4_Witness ==
    /\ last.action = "stop_session"
    /\ last.data.session_id \in Parents
    /\ last.count = 3
    /\ sessions[last.data.session_id].status = STOPPED
    /\ Cardinality({c \in ChildrenOf(last.data.session_id) :
                      sessions[c].status = STOPPED /\ sessions[c].worker_pid = NULL}) = 2

\* C5: a successful start_group on avatar group A and IC group I inserts one
\* parent of kind group_ic_session and |A|*|I| leaves, one per pair, each with
\* that parent.
C5_StartGroupRows ==
    [][(last'.action = "start_group" /\ last'.status = "success")
       => LET A == avatar_groups[last'.data.avatar_group]
              I == ic_groups[last'.data.ic_group]
              new_parents == {i \in NewRows : sessions'[i].is_group_session}
              new_leaves == NewRows \ new_parents
          IN /\ Cardinality(new_parents) = 1
             /\ \A p \in new_parents :
                   /\ sessions'[p].session_type = GROUP_IC_SESSION
                   /\ \A i \in new_leaves : sessions'[i].parent_session_id = p
             /\ Cardinality(new_leaves) = Cardinality(A) * Cardinality(I)
             /\ \A a \in A, c \in I :
                   Cardinality({i \in new_leaves : /\ sessions'[i].avatar_id = a
                                                   /\ sessions'[i].ic_id = c}) = 1]_vars

\* A start_group on a two-member avatar group: a parent with two leaves.
C5_Witness ==
    /\ last.action = "start_group"
    /\ last.status = "success"
    /\ Cardinality(avatar_groups[last.data.avatar_group]) = 2
    /\ \E p \in Parents :
          /\ sessions[p].session_type = GROUP_IC_SESSION
          /\ Cardinality(ChildrenOf(p)) = 2

\* The command carries a group-valued argument.
GroupValued(l) ==
    \/ l.action = "start_ic" /\ l.data.avatar_id = NULL /\ l.data.avatar_group # NULL
    \/ /\ l.action = "start_request"
       /\ \/ l.data.avatar_id = NULL /\ l.data.avatar_group # NULL
          \/ l.data.request_id = NULL /\ l.data.request_group # NULL
    \/ l.action = "start_link" /\ l.data.dest_id = NULL /\ l.data.dest_group # NULL

KindOf(action) ==
    IF action = "start_ic" THEN IC_SESSION
    ELSE IF action = "start_request" THEN REQUEST_SESSION
    ELSE AVATAR_LINK

\* C6 as stated: a successful start_ic, start_request or start_link with a
\* group-valued argument inserts one RUNNING parent of the command's kind, and
\* every leaf it inserts has that parent.
C6_GroupArgumentMakesParent ==
    [][(GroupValued(last') /\ last'.status = "success")
       => \E p \in NewRows :
             /\ sessions'[p].is_group_session
             /\ sessions'[p].status = RUNNING
             /\ sessions'[p].session_type = KindOf(last'.action)
             /\ \A i \in NewRows \ {p} :
                   /\ ~sessions'[i].is_group_session
                   /\ sessions'[i].parent_session_id = p]_vars

\* The command names single ids on both sides and no group.
SingleIds(l) ==
    \/ l.action = "start_ic" /\ l.data.avatar_id # NULL /\ l.data.avatar_group = NULL
    \/ /\ l.action = "start_request"
       /\ l.data.avatar_id # NULL /\ l.data.avatar_group = NULL
       /\ l.data.request_id # NULL /\ l.data.request_group = NULL
    \/ l.action = "start_link" /\ l.data.dest_id # NULL /\ l.data.dest_group = NULL

\* The step inserted one row: a leaf without a parent.
OneFreeLeaf ==
    /\ Cardinality(NewRows) = 1
    /\ \A i \in NewRows : /\ ~sessions'[i].is_group_session
                          /\ sessions'[i].parent_session_id = NULL

\* C7 as stated: a successful start command with single ids on both sides
\* inserts exactly one leaf, without a parent, and no group row.
C7_SingleIdsOneLeaf ==
    [][(SingleIds(last') /\ last'.status = "success") => OneFreeLeaf]_vars

\* C7 amended: the same, except that start_link from a profile to itself
\* inserts no row at all.
C7_SingleIdsOneLeafUnlessSelfLink ==
    [][(SingleIds(last') /\ last'.status = "success")
       => IF last'.action = "start_link" /\ last'.data.source_id = last'.data.dest_id
          THEN NewRows = {}
          ELSE OneFreeLeaf]_vars

\* A start_link between two distinct profiles left its one leaf.
C7_Witness ==
    /\ last.action = "start_link"
    /\ last.status = "success"
    /\ SingleIds(last)
    /\ last.data.source_id # last.data.dest_id
    /\ \E i \in Leaves :
          /\ sessions[i].session_type = AVATAR_LINK
          /\ sessions[i].parent_session_id = NULL
          /\ sessions[i].avatar_id = last.data.source_id
          /\ sessions[i].destination_avatar_id = last.data.dest_id

\* C8 as stated: every leaf under a parent has the parent's start_time and
\* end_time.
C8_LeafTimesEqualParent ==
    \A i \in Leaves :
        sessions[i].parent_session_id \in Rows
        => /\ sessions[i].start_time = sessions[sessions[i].parent_session_id].start_time
           /\ sessions[i].end_time = sessions[sessions[i].parent_session_id].end_time

\* C9: no group row has a parent, and every parent_session_id names an
\* existing group row.
C9_TwoLevelTree ==
    \A i \in Rows :
        /\ sessions[i].is_group_session => sessions[i].parent_session_id = NULL
        /\ sessions[i].parent_session_id # NULL => sessions[i].parent_session_id \in Parents

\* redo_failed inserted a copy of a failed leaf under the leaf's parent.
C9_Witness ==
    /\ last.action = "redo_failed"
    /\ \E i \in Leaves :
          /\ sessions[i].description.redo = 1
          /\ sessions[i].parent_session_id \in Parents

\* The RUNNING leaves under parent p.
RunningUnder(p) == {c \in ChildrenOf(p) : sessions[c].status = RUNNING}

\* The leaves a RUNNING parent bound to the group gets for one new profile.
ExpectedNewLeaves(p) ==
    IF sessions[p].session_type = GROUP_IC_SESSION
    THEN IF sessions[p].ic_group_id \in DOMAIN ic_groups
         THEN Cardinality(ic_groups[sessions[p].ic_group_id]) ELSE 0
    ELSE 1

\* The step is a successful add_member_to_group of a new profile to an avatar group.
AddsProfile ==
    /\ last'.action = "add_member_to_group"
    /\ last'.data.group_type = "avatar"
    /\ last'.status = "success"
    /\ last'.data.group_name \in DOMAIN avatar_groups
    /\ last'.data.member_id \notin avatar_groups[last'.data.group_name]
    /\ last'.data.member_id \in avatar_groups'[last'.data.group_name]

\* C10 as stated, for the commands whose new workers all start: adding a new
\* profile to avatar group G gives every RUNNING parent bound to G the stated
\* number of new RUNNING leaves, and every other parent none.
C10_AddMemberRunningLeaves ==
    [][AddsProfile
       => \A p \in Parents :
             LET added == {c \in NewRows : sessions'[c].parent_session_id = p}
             IN IF /\ sessions[p].status = RUNNING
                   /\ sessions[p].avatar_group_id = last'.data.group_name
                THEN (\A c \in added : sessions'[c].status = RUNNING)
                     => Cardinality(RunningUnder(p)') - Cardinality(RunningUnder(p))
                          = ExpectedNewLeaves(p)
                ELSE added = {}]_vars

\* The step is a successful add_member_to_group of a new member to a group of
\* the given type.
AddsMember(group_type, groups) ==
    /\ last'.action = "add_member_to_group"
    /\ last'.data.group_type = group_type
    /\ last'.status = "success"
    /\ last'.data.group_name \in DOMAIN groups
    /\ last'.data.member_id \notin groups[last'.data.group_name]

\* C11 as stated: adding a new info-copy c to IC group H gives every RUNNING
\* group_ic_session parent bound to H one new RUNNING leaf (p, c) per profile
\* p of the parent's avatar group, and the reply counts the rows inserted.
C11_AddIcCreatesLeaves ==
    [][AddsMember("ic", ic_groups)
       => /\ \A P \in Parents :
                (/\ sessions[P].status = RUNNING
                 /\ sessions[P].session_type = GROUP_IC_SESSION
                 /\ sessions[P].ic_group_id = last'.data.group_name
                 /\ sessions[P].avatar_group_id \in DOMAIN avatar_groups)
                => \A p \in avatar_groups[sessions[P].avatar_group_id] :
                      Cardinality({c \in NewRows :
                                     /\ sessions'[c].parent_session_id = P
                                     /\ sessions'[c].avatar_id = p
                                     /\ sessions'[c].ic_id = last'.data.member_id
                                     /\ sessions'[c].status = RUNNING}) = 1
          /\ last'.count = Cardinality(NewRows)]_vars

\* C12 as stated: adding a new request to a request group adds the membership
\* and leaves every session row and active_workers as they were.
C12_AddRequestOnlyMembership ==
    [][AddsMember("request", request_groups)
       => /\ request_groups' =
                [request_groups EXCEPT ![last'.data.group_name] =
                                           @ \cup {last'.data.member_id}]
          /\ sessions' = sessions
          /\ active_workers' = active_workers]_vars

\* The column that binds a parent to a group of the given type.
GroupColumn(group_type) ==
    IF group_type = "avatar" THEN "avatar_group_id"
    ELSE IF group_type = "ic" THEN "ic_group_id"
    ELSE "request_group_id"

\* The step is a successful add_member_to_group of a new member, to a group of
\* any type.
AddsNewMember ==
    \/ AddsMember("avatar", avatar_groups)
    \/ AddsMember("ic", ic_groups)
    \/ AddsMember("request", request_groups)

\* The reply and the tables when remove_member_from_group of the member just
\* added is the next command served.
RemovedAgain == handle_remove_member_from_group(World(0, {})', last'.data)

\* C13 as stated: add_member_to_group(G, m) of a new member followed by
\* remove_member_from_group(G, m) leaves under every RUNNING parent bound to G,
\* of every kind, as many RUNNING leaves as before the add.
C13_AddThenRemoveRestores ==
    [][AddsNewMember
       => /\ RemovedAgain.status = "success"
          /\ \A P \in Parents :
                (/\ sessions[P].status = RUNNING
                 /\ sessions[P][GroupColumn(last'.data.group_type)] = last'.data.group_name)
                => Cardinality({c \in DOMAIN RemovedAgain.w.sessions :
                                  /\ RemovedAgain.w.sessions[c].parent_session_id = P
                                  /\ RemovedAgain.w.sessions[c].status = RUNNING})
                   = Cardinality(RunningUnder(P))]_vars

\* The membership table of a group type.
GroupsOf(group_type) ==
    IF group_type = "avatar" THEN avatar_groups
    ELSE IF group_type = "ic" THEN ic_groups
    ELSE request_groups

\* The same table after the step.
GroupsAfter(group_type) ==
    IF group_type = "avatar" THEN avatar_groups'
    ELSE IF group_type = "ic" THEN ic_groups'
    ELSE request_groups'

\* The entity of leaf c that was drawn from a group of the given type: under an
\* avatar_link parent the profile drawn from the avatar group is the destination.
GroupSide(c, group_type) ==
    IF group_type = "ic" THEN sessions[c].ic_id
    ELSE IF group_type = "request" THEN sessions[c].request_id
    ELSE IF sessions[c].session_type = AVATAR_LINK
    THEN sessions[c].destination_avatar_id
    ELSE sessions[c].avatar_id

\* The RUNNING leaves of member m under the RUNNING parents bound to group G.
LeavesOfMember(group_type, G, m) ==
    {c \in Leaves :
       /\ sessions[c].status = RUNNING
       /\ sessions[c].parent_session_id \in Parents
       /\ sessions[sessions[c].parent_session_id].status = RUNNING
       /\ sessions[sessions[c].parent_session_id][GroupColumn(group_type)] = G
       /\ GroupSide(c, group_type) = m}

\* The step is a successful remove_member_from_group of a member of the group.
RemovesMember ==
    /\ last'.action = "remove_member_from_group"
    /\ last'.status = "success"
    /\ last'.data.group_name \in DOMAIN GroupsOf(last'.data.group_type)
    /\ last'.data.member_id \in GroupsOf(last'.data.group_type)[last'.data.group_name]

\* C14 as stated: remove_member_from_group(G, m) stops exactly the RUNNING
\* leaves of m under the RUNNING parents bound to G, every other row keeps its
\* status and its worker, and the membership (G, m) is gone.
C14_RemoveMemberStopsExactly ==
    [][RemovesMember
       => LET t == last'.data.group_type
              G == last'.data.group_name
              m == last'.data.member_id
          IN /\ \A i \in Rows :
                   /\ i \in DOMAIN sessions'
                   /\ IF i \in LeavesOfMember(t, G, m)
                      THEN /\ sessions'[i].status = STOPPED
                           /\ i \notin DOMAIN active_workers'
                      ELSE /\ sessions'[i].status = sessions[i].status
                           /\ (i \in DOMAIN active_workers') = (i \in DOMAIN active_workers)
             /\ m \notin GroupsAfter(t)[G]]_vars

\* C15 as stated: remove_group on an existing group leaves every leaf that was
\* RUNNING under a parent bound to the group STOPPED with no live process in
\* active_workers, and the group with its memberships is gone.
C15_RemoveGroupStopsLeaves ==
    [][(/\ last'.action = "remove_group"
        /\ last'.data.group_name \in DOMAIN GroupsOf(last'.data.group_type))
       => /\ \A c \in Leaves :
                (/\ sessions[c].status = RUNNING
                 /\ sessions[c].parent_session_id \in Parents
                 /\ sessions[sessions[c].parent_session_id]
                        [GroupColumn(last'.data.group_type)] = last'.data.group_name)
                => /\ c \in DOMAIN sessions'
                   /\ sessions'[c].status = STOPPED
                   /\ ~LiveHandle(c)'
          /\ last'.data.group_name \notin DOMAIN GroupsAfter(last'.data.group_type)]_vars

\* The ids in the table of an entity type; the information copies and the
\* requests are the same in every state.
EntitiesOf(entity_type) ==
    IF entity_type = "avatar" THEN DOMAIN avatars
    ELSE IF entity_type = "ic" THEN ICs
    ELSE Requests

EntitiesAfter(entity_type) ==
    IF entity_type = "avatar" THEN DOMAIN avatars'
    ELSE IF entity_type = "ic" THEN ICs
    ELSE Requests

\* The daemon's payload cache of an entity type after the step.
CacheAfter(entity_type) ==
    IF entity_type = "avatar" THEN avatar_cache'
    ELSE IF entity_type = "ic" THEN ic_cache'
    ELSE request_cache'

\* Session row s references the entity.
References(s, entity_type, id) ==
    IF entity_type = "avatar" THEN ReferencesAvatar(s, id)
    ELSE IF entity_type = "ic" THEN s.ic_id = id
    ELSE s.request_id = id

\* The step is a remove_entity of an entity that exists.
RemovesEntity ==
    /\ last'.action = "remove_entity"
    /\ last'.data.id \in EntitiesOf(last'.data.entity_type)

\* C16 as stated: remove_entity on an existing profile, information copy or
\* request replies success; the entity is gone, no session row references it,
\* no session that referenced it has a live worker, and the payload cache of
\* its type has no entry for its id.
C16_RemoveEntityCascades ==
    [][RemovesEntity
       => LET t == last'.data.entity_type
              id == last'.data.id
          IN /\ last'.status = "success"
             /\ id \notin EntitiesAfter(t)
             /\ \A i \in DOMAIN sessions' : ~References(sessions'[i], t, id)
             /\ \A i \in Rows : References(sessions[i], t, id) => ~LiveHandle(i)'
             /\ id \notin DOMAIN CacheAfter(t)]_vars

\* C16 for profiles only.
C16_RemoveAvatarCascades ==
    [][(RemovesEntity /\ last'.data.entity_type = "avatar")
       => LET id == last'.data.id
          IN /\ last'.status = "success"
             /\ id \notin DOMAIN avatars'
             /\ \A i \in DOMAIN sessions' : ~ReferencesAvatar(sessions'[i], id)
             /\ \A i \in Rows : ReferencesAvatar(sessions[i], id) => ~LiveHandle(i)'
             /\ id \notin DOMAIN avatar_cache']_vars

\* The reply and the tables when the same remove_entity is the next command
\* served.
RemovedTwice == handle_remove_entity(World(0, {})', last'.data)

\* C17 as stated: of two consecutive remove_entity calls on an existing entity
\* both reply success; the first removes the entity and the sessions that
\* reference it, and the second leaves entities, sessions, memberships, caches
\* and active_workers as the first left them.
C17_RemoveEntityTwice ==
    [][RemovesEntity
       => /\ last'.status = "success"
          /\ last'.data.id \notin EntitiesAfter(last'.data.entity_type)
          /\ \A i \in DOMAIN sessions' :
                ~References(sessions'[i], last'.data.entity_type, last'.data.id)
          /\ RemovedTwice.status = "success"
          /\ RemovedTwice.w.avatars = avatars'
          /\ RemovedTwice.w.sessions = sessions'
          /\ RemovedTwice.w.avatar_groups = avatar_groups'
          /\ RemovedTwice.w.ic_groups = ic_groups'
          /\ RemovedTwice.w.request_groups = request_groups'
          /\ RemovedTwice.w.avatar_cache = avatar_cache'
          /\ RemovedTwice.w.ic_cache = ic_cache'
          /\ RemovedTwice.w.request_cache = request_cache'
          /\ RemovedTwice.w.active_workers = active_workers']_vars

\* The step is a successful update_entity of an existing profile.
UpdatesProfile ==
    /\ last'.action = "update_entity"
    /\ last'.status = "success"
    /\ last'.data.entity_type = "avatar"
    /\ last'.data.id \in DOMAIN avatars

\* The rows that were RUNNING and reference the updated profile.
AffectedByUpdate ==
    {i \in Rows : /\ sessions[i].status = RUNNING
                  /\ ReferencesAvatar(sessions[i], last'.data.id)}

\* Row i is RUNNING after the step with a live worker started by the step,
\* kept in active_workers under the row's worker_pid.
RunningAgain(i) ==
    /\ i \in DOMAIN sessions'
    /\ sessions'[i].status = RUNNING
    /\ sessions'[i].worker_pid # NULL
    /\ sessions'[i].worker_pid # sessions[i].worker_pid
    /\ i \in DOMAIN active_workers'
    /\ active_workers'[i] = sessions'[i].worker_pid
    /\ active_workers'[i] \in DOMAIN procs' \ DOMAIN procs
    /\ procs'[active_workers'[i]].alive

\* C18 as stated: after a successful update_entity on a profile every session
\* that was RUNNING and references it is RUNNING again on the same row with a
\* newly spawned live worker, and the reply counts these sessions.
C18_UpdateRestartsSessions ==
    [][UpdatesProfile
       => /\ \A i \in AffectedByUpdate : RunningAgain(i)
          /\ last'.count = Cardinality(AffectedByUpdate)]_vars

\* C18 for the leaves whose new worker started: these are RUNNING again, and
\* the reply counts every affected row.
C18_UpdateRestartsStartedLeaves ==
    [][UpdatesProfile
       => /\ \A i \in AffectedByUpdate \cap Leaves :
                sessions'[i].status # FAILED => RunningAgain(i)
          /\ last'.count = Cardinality(AffectedByUpdate)]_vars

\* The step is a fail_sessions_on_target that completed.
FailsOnTarget ==
    /\ last'.action = "fail_sessions_on_target"
    /\ last'.status = "success"

\* The rows bound to the avatar group named by the command.
BoundToTarget ==
    IF last'.data.avatar_group = NULL THEN {}
    ELSE {p \in Rows : sessions[p].avatar_group_id = last'.data.avatar_group}

\* The RUNNING rows the command is to fail: the children of the bound rows and
\* the rows that reference the profile named by the command.
TargetedRunning ==
    {i \in Rows :
       /\ sessions[i].status = RUNNING
       /\ \/ sessions[i].parent_session_id \in BoundToTarget
          \/ /\ last'.data.avatar_id # NULL
             /\ ReferencesAvatar(sessions[i], last'.data.avatar_id)}

\* C19 as stated: fail_sessions_on_target leaves every targeted RUNNING row
\* FAILED with its worker terminated, leaves every row bound to the avatar
\* group FAILED in the database, also without a RUNNING child, and leaves the
\* status of every other row as it was.
C19_FailOnTargetPersists ==
    [][FailsOnTarget
       => /\ \A i \in TargetedRunning :
                /\ sessions'[i].status = FAILED
                /\ ~LiveHandle(i)'
                /\ i \notin DOMAIN active_workers'
          /\ \A p \in BoundToTarget : sessions'[p].status = FAILED
          /\ \A i \in Rows \ (TargetedRunning \cup BoundToTarget) :
                sessions'[i].status = sessions[i].status]_vars

\* Row new is a redo copy of row old: same kind, reference fields, parent and
\* end_time, and the description of old under one more "[REDO] " prefix.
IsRedoCopy(old, new) ==
    /\ ~new.is_group_session
    /\ new.session_type = old.session_type
    /\ new.avatar_id = old.avatar_id
    /\ new.ic_id = old.ic_id
    /\ new.request_id = old.request_id
    /\ new.destination_avatar_id = old.destination_avatar_id
    /\ new.avatar_group_id = old.avatar_group_id
    /\ new.ic_group_id = old.ic_group_id
    /\ new.parent_session_id = old.parent_session_id
    /\ new.end_time = old.end_time
    /\ new.description = [old.description EXCEPT !.redo = @ + 1]

\* The leaves that were FAILED, and those among them a copy of which is also
\* a copy of leaf i.
FailedLeaves == {i \in Leaves : sessions[i].status = FAILED}

FailedLike(i) ==
    {j \in FailedLeaves :
       IsRedoCopy(sessions[j], [sessions[i] EXCEPT !.description.redo = @ + 1])}

RedoCopiesOf(i) == {n \in NewRows : IsRedoCopy(sessions[i], sessions'[n])}

\* Row n is RUNNING after the step with a live worker under its worker_pid.
SpawnedRunning(n) ==
    /\ sessions'[n].status = RUNNING
    /\ HasWorker(n)'
    /\ LiveHandle(n)'

\* The spawn of row n raised: the row is FAILED and the daemon keeps no handle.
SpawnRaised(n) ==
    /\ sessions'[n].status = FAILED
    /\ sessions'[n].worker_pid = NULL
    /\ n \notin DOMAIN active_workers'

\* C20 as stated: redo_failed leaves every leaf that was FAILED RESTARTED with
\* one new row of a fresh id that copies it under the "[REDO] " prefix and is
\* RUNNING with its worker; every parent that was FAILED is RESTARTED and gets
\* no new row.
C20_RedoCopiesRunning ==
    [][last'.action = "redo_failed"
       => /\ \A i \in FailedLeaves :
                /\ sessions'[i].status = RESTARTED
                /\ Cardinality(RedoCopiesOf(i)) = Cardinality(FailedLike(i))
                /\ \A n \in RedoCopiesOf(i) : SpawnedRunning(n)
          /\ \A p \in Parents :
                sessions[p].status = FAILED => sessions'[p].status = RESTARTED
          /\ Cardinality(NewRows) = Cardinality(FailedLeaves)]_vars

\* C20 amended: the same, where a copy whose worker could not be started is
\* FAILED without a worker instead of RUNNING.
C20_RedoCopiesSpawned ==
    [][last'.action = "redo_failed"
       => /\ \A i \in FailedLeaves :
                /\ sessions'[i].status = RESTARTED
                /\ Cardinality(RedoCopiesOf(i)) = Cardinality(FailedLike(i))
                /\ \A n \in RedoCopiesOf(i) : SpawnedRunning(n) \/ SpawnRaised(n)
          /\ \A p \in Parents :
                sessions[p].status = FAILED => sessions'[p].status = RESTARTED
          /\ Cardinality(NewRows) = Cardinality(FailedLeaves)]_vars

\* redo_failed restarted a parent and a leaf of it, and the copy of the leaf
\* runs with its worker.
C20_Witness ==
    /\ last.action = "redo_failed"
    /\ \E p \in Parents :
          /\ sessions[p].status = RESTARTED
          /\ \E i \in ChildrenOf(p), n \in Leaves :
                /\ sessions[i].status = RESTARTED
                /\ IsRedoCopy(sessions[i], sessions[n])
                /\ sessions[n].status = RUNNING
                /\ HasWorker(n)

\* The commands that fail and redo sessions, one command deeper than Spec.
NextFailRedo ==
    \/ StartIc(MembershipCommands)
    \/ StartGroup(MembershipCommands)
    \/ FailSessionsOnTarget(MembershipCommands)
    \/ FailAllRunning(MembershipCommands)
    \/ RedoFailed(MembershipCommands)
    \/ WorkerComplete
    \/ Tick

SpecFailRedo == Init /\ [][NextFailRedo]_vars

\* The reply and the tables when redo_failed is the next command served and
\* every worker it spawns starts.
RedoneNext == handle_redo_failed_sessions(World(0, {})', [none |-> NULL])

WasRunning == {i \in Rows : sessions[i].status = RUNNING}

\* C21 as stated: fail_all_running immediately followed by redo_failed yields
\* as many new RUNNING sessions as there were RUNNING non-parent rows before
\* fail_all_running, and no row that was RUNNING before is still RUNNING.
C21_FailAllThenRedo ==
    [][last'.action = "fail_all_running"
       => /\ Cardinality({n \in DOMAIN RedoneNext.w.sessions \ DOMAIN sessions' :
                            RedoneNext.w.sessions[n].status = RUNNING})
             = Cardinality(WasRunning) - Cardinality(WasRunning \cap Parents)
          /\ \A i \in WasRunning : RedoneNext.w.sessions[i].status # RUNNING]_vars

\* The second half of C21 alone: no row that was RUNNING before
\* fail_all_running is still RUNNING after the redo_failed that follows it.
C21_NoneStillRunning ==
    [][last'.action = "fail_all_running"
       => \A i \in WasRunning : RedoneNext.w.sessions[i].status # RUNNING]_vars

\* C22: a start of the daemon leaves no row RUNNING: the rows that were
\* RUNNING are FAILED, every other row is as it was, and active_workers is
\* empty.
C22_RestartFailsRunning ==
    [][last'.action = "restart"
       => /\ DOMAIN sessions' = Rows
          /\ \A i \in Rows :
                IF sessions[i].status = RUNNING
                THEN sessions'[i].status = FAILED
                ELSE sessions'[i] = sessions[i]
          /\ \A i \in DOMAIN sessions' : sessions'[i].status # RUNNING
          /\ active_workers' = EmptyMap]_vars

\* The daemon started over a leaf that was RUNNING with a worker and a row
\* that was STOPPED: the first is FAILED, the second still STOPPED.
C22_Witness ==
    /\ last.action = "restart"
    /\ active_workers = EmptyMap
    /\ \E i \in Leaves : sessions[i].status = FAILED /\ sessions[i].worker_pid # NULL
    /\ \E j \in Rows : sessions[j].status = STOPPED

\* C23 as stated: stop_session on a row whose status is terminal replies
\* success and leaves every session row and active_workers as they were.
C23_StopTerminalNoEffect ==
    [][(/\ last'.action = "stop_session"
        /\ last'.data.session_id \in Rows
        /\ sessions[last'.data.session_id].status \in Terminal)
       => /\ last'.status = "success"
          /\ sessions' = sessions
          /\ active_workers' = active_workers]_vars

\* The command of the step spawns a worker for leaf n: a leaf the command
\* inserted, or for update_entity a RUNNING leaf that references the profile.
SpawnAttempted(n) ==
    \/ /\ last'.action \in StartActions \cup {"add_member_to_group", "redo_failed"}
       /\ n \in NewRows
       /\ ~sessions'[n].is_group_session
    \/ /\ last'.action = "update_entity"
       /\ last'.data.entity_type = "avatar"
       /\ last'.data.id \in DOMAIN avatars
       /\ n \in AffectedByUpdate \cap Leaves

\* The step started a process for row n.
ProcessStarted(n) ==
    \E pid \in DOMAIN procs' \ DOMAIN procs : procs'[pid].session_id = n

\* The rows a command of the step may spawn for.
SpawnCandidates == DOMAIN sessions \cup DOMAIN sessions'

\* C24 as stated: when the spawn for a leaf fails during a start,
\* add_member_to_group, update_entity or redo_failed command, the leaf is
\* FAILED, active_workers has no entry for it, and the reply is an error.
C24_SpawnFailureIsError ==
    [][\A n \in SpawnCandidates :
          (SpawnAttempted(n) /\ ~ProcessStarted(n))
          => /\ sessions'[n].status = FAILED
             /\ n \notin DOMAIN active_workers'
             /\ last'.status = "error"]_vars

\* C24 without the reply: the leaf is FAILED and has no entry.
C24_SpawnFailureFailsLeaf ==
    [][\A n \in SpawnCandidates :
          (SpawnAttempted(n) /\ ~ProcessStarted(n))
          => /\ sessions'[n].status = FAILED
             /\ n \notin DOMAIN active_workers']_vars

\* C25 as stated: a command that replies error leaves the entities, the
\* memberships, the session rows, the caches and active_workers as they were.
C25_ErrorChangesNothing ==
    [][last'.status = "error"
       => /\ avatars' = avatars
          /\ avatar_groups' = avatar_groups
          /\ ic_groups' = ic_groups
          /\ request_groups' = request_groups
          /\ sessions' = sessions
          /\ avatar_cache' = avatar_cache
          /\ ic_cache' = ic_cache
          /\ request_cache' = request_cache
          /\ active_workers' = active_workers]_vars

\* The commands that start a group session, delete groups and add members,
\* one command deeper than Spec.
NextGroups ==
    \/ StartGroup(MembershipCommands)
    \/ RemoveGroupCmd(MembershipCommands)
    \/ AddMemberToGroup(MembershipCommands)
    \/ UnknownAction(MembershipCommands)

SpecGroups == Init /\ [][NextGroups]_vars

\* The command names both the id and the group of one side, or neither.
BadShape(l) ==
    \/ /\ l.action = "start_ic"
       /\ (l.data.avatar_id # NULL) = (l.data.avatar_group # NULL)
    \/ /\ l.action = "start_request"
       /\ \/ (l.data.avatar_id # NULL) = (l.data.avatar_group # NULL)
          \/ (l.data.request_id # NULL) = (l.data.request_group # NULL)
    \/ /\ l.action = "start_link"
       /\ (l.data.dest_id # NULL) = (l.data.dest_group # NULL)

\* Both the id and the group of one side are given.
OverSpecified(l) ==
    \/ /\ l.action \in {"start_ic", "start_request"}
       /\ l.data.avatar_id # NULL /\ l.data.avatar_group # NULL
    \/ /\ l.action = "start_request"
       /\ l.data.request_id # NULL /\ l.data.request_group # NULL
    \/ /\ l.action = "start_link"
       /\ l.data.dest_id # NULL /\ l.data.dest_group # NULL

\* C26 as stated: start_ic, start_request or start_link with both the id and
\* the group of a side, or with neither, replies error and inserts no row.
C26_BadShapeIsError ==
    [][BadShape(last') => (last'.status = "error" /\ NewRows = {})]_vars

\* C26 for the commands that give neither the id nor the group of a side and
\* do not give both for the other side.
C26_MissingSideIsError ==
    [][(BadShape(last') /\ ~OverSpecified(last'))
       => (last'.status = "error" /\ NewRows = {})]_vars

\* A catalog in which each group exists with one member or with none.
InitSmallGroups ==
    /\ sessions = EmptyMap
    /\ next_session_id = 1
    /\ avatars = [a \in AvatarIds |-> [photo_data |-> InitPhoto, info_data |-> InitInfo]]
    /\ \E members \in {{}, {1}} : avatar_groups = [g \in GroupNames |-> members]
    /\ \E members \in {{}, {1}} : ic_groups = [g \in GroupNames |-> members]
    /\ \E members \in {{}, {1}} : request_groups = [g \in GroupNames |-> members]
    /\ active_workers = EmptyMap
    /\ procs = EmptyMap
    /\ next_pid = 1
    /\ avatar_cache = EmptyMap
    /\ ic_cache = EmptyMap
    /\ request_cache = EmptyMap
    /\ pending = {}
    /\ now = 1
    /\ served = 0
    /\ handler = Idle
    /\ last = [action |-> "init", data |-> [none |-> NULL], status |-> "success",
               count |-> 0]

\* The start commands over that catalog.
NextStart ==
    \/ StartIc(MaxCommands)
    \/ StartRequest(MaxCommands)
    \/ StartLink(MaxCommands)
    \/ StartGroup(MaxCommands)

SpecSmallGroups == InitSmallGroups /\ [][NextStart]_vars

\* Group g of the table exists and has no member.
IsEmptyGroup(groups, g) == g \in DOMAIN groups /\ groups[g] = {}

\* The group argument of the start command names an empty group.
NamesEmptyGroup(l) ==
    \/ /\ l.action = "start_ic"
       /\ l.data.avatar_id = NULL
       /\ IsEmptyGroup(avatar_groups, l.data.avatar_group)
    \/ /\ l.action = "start_request"
       /\ \/ l.data.avatar_id = NULL /\ IsEmptyGroup(avatar_groups, l.data.avatar_group)
          \/ l.data.request_id = NULL /\ IsEmptyGroup(request_groups, l.data.request_group)
    \/ /\ l.action = "start_link"
       /\ l.data.dest_id = NULL
       /\ IsEmptyGroup(avatar_groups, l.data.dest_group)
    \/ /\ l.action = "start_group"
       /\ \/ IsEmptyGroup(avatar_groups, l.data.avatar_group)
          \/ IsEmptyGroup(ic_groups, l.data.ic_group)

C28_OneHandlerAtATime ==
    [][/\ served' \in {served, served + 1}
       /\ served' # served => handler' = Idle
       /\ handler # Idle
          => \/ /\ handler' = Idle
                /\ served' = served + 1
                /\ last'.action = "stop_session"
                /\ last'.data.session_id = handler.session_id
             \/ /\ handler' # Idle
                /\ handler'.session_id = handler.session_id
                /\ Len(handler'.todo) <= Len(handler.todo)
                /\ served' = served
       /\ (handler' = handler /\ served' = served)
          => UNCHANGED <<next_session_id, avatars, avatar_groups, ic_groups,
                         request_groups, active_workers, avatar_cache, ic_cache,
                         request_cache, pending>>]_vars

\* A stop_session on a parent has stopped one row and has rows left to visit
\* when a worker of another row ends on its own.
C28_Witness ==
    /\ handler # Idle
    /\ handler.session_id \in Parents
    /\ handler.count >= 1
    /\ handler.todo # <<>>
    /\ last.action = "worker_exit"

\* C30: during stop_session on a RUNNING parent, the step that commits the
\* parent as STOPPED leaves no child of it RUNNING with a live worker.
C30_ParentStoppedAfterChildren ==
    [][(/\ handler # Idle
        /\ handler.session_id \in Parents
        /\ sessions[handler.session_id].status = RUNNING
        /\ sessions'[handler.session_id].status = STOPPED)
       => \A c \in ChildrenOf(handler.session_id) :
             ~(sessions'[c].status = RUNNING /\ LiveHandle(c)')]_vars

\* The daemon with its workers as scheduled processes: a worker whose deadline
\* has come is a runnable process of the operating system and gets to run, and
\* time does not stop before a deadline.
NextWorkers ==
    \/ StartIc(MaxCommands)
    \/ StartGroup(MaxCommands)
    \/ StopSession(MaxCommands)
    \/ UpdateEntity(MaxCommands)
    \/ FailAllRunning(MaxCommands)
    \/ DaemonRestart
    \/ WorkerComplete
    \/ TickToDeadline

SpecWorkers ==
    Init /\ [][NextWorkers]_vars /\ WF_vars(WorkerComplete) /\ WF_vars(TickToDeadline)

\* The worker process of row i: running, ended on its own, or gone (the daemon
\* terminated it, or ended itself and its children with it).
WorkerRunning(i) ==
    /\ i \in Leaves
    /\ sessions[i].end_time # NULL
    /\ \E pid \in DOMAIN procs : procs[pid].session_id = i /\ procs[pid].alive

WorkerExited(i) ==
    \E pid \in DOMAIN procs : procs[pid].session_id = i /\ ~procs[pid].alive

WorkerGone(i) == \A pid \in DOMAIN procs : procs[pid].session_id # i

CompletedByWorker(i) ==
    /\ i \in Rows
    /\ sessions[i].status = COMPLETED
    /\ sessions[i].worker_pid = NULL
    /\ WorkerExited(i)

\* C29: under fairness, a leaf with an end_time whose worker was spawned is
\* eventually COMPLETED with worker_pid NULL, written by the worker on its
\* exit, unless the daemon terminates the worker.
C29_WorkerCompletes ==
    \A i \in 1..MaxSessions :
        [](WorkerRunning(i) => <>(CompletedByWorker(i) \/ WorkerGone(i)))

\* A worker has just ended on its own and its row is COMPLETED, the handle
\* still in the daemon's map.
C29_Witness ==
    /\ last.action = "worker_exit"
    /\ \E i \in Leaves :
          /\ CompletedByWorker(i)
          /\ sessions[i].end_time # NULL
          /\ sessions[i].end_time <= now
          /\ i \in DOMAIN active_workers

\* C31: while update_entity restarts a session, no committed state has that
\* session STOPPED.
C31_StoppedNeverCommitted ==
    (handler # Idle /\ handler.pc = "update")
    => \A i \in handler.affected :
          i \in Rows => sessions[i].status # STOPPED

\* C32: once a worker has committed COMPLETED for its row, no step changes the
\* row's status to STOPPED, FAILED or RUNNING.
C32_CompletedIsKept ==
    [][\A i \in Rows :
          (sessions[i].status = COMPLETED /\ i \in DOMAIN sessions')
          => sessions'[i].status \notin {STOPPED, FAILED, RUNNING}]_vars

\* C32 for the write that races with the handler: a row the worker completed
\* after stop_session had loaded it as RUNNING is not overwritten by the loop.
C32_RacingWriteIsKept ==
    [][\A i \in Rows :
          (/\ handler # Idle
           /\ handler.pc = "stop"
           /\ handler.todo # <<>>
           /\ sessions[i].status = COMPLETED)
          => sessions'[i].status = COMPLETED]_vars

\* The daemon's map has an entry for row i whose process has ended on its own.
ExitedEntry(i) ==
    /\ i \in DOMAIN active_workers
    /\ active_workers[i] \in DOMAIN procs
    /\ ~procs[active_workers[i]].alive

\* C33: every active_workers entry whose process has exited on its own is
\* eventually removed from active_workers.
C33_ExitedEntriesRemoved ==
    \A i \in 1..MaxSessions :
        [](ExitedEntry(i) => <>(i \notin DOMAIN active_workers))

\* No command removes such an entry: it stays until the daemon itself ends.
C33_ExitedEntryStays ==
    [][\A i \in 1..MaxSessions :
          (ExitedEntry(i) /\ last'.action # "restart")
          => i \in DOMAIN active_workers']_vars

\* The payload stored for a profile: the photo bytes, then the info text in
\* UTF-8.
AvatarPayload(a) == avatars[a].photo_data \o Utf8(avatars[a].info_data)

\* The two payloads a worker of row s is to be given.
PayloadsOf(s) ==
    <<AvatarPayload(s.avatar_id),
      IF s.session_type \in {IC_SESSION, GROUP_IC_SESSION} THEN wav_data(s.ic_id)
      ELSE IF s.session_type = REQUEST_SESSION THEN Utf8(request_data(s.request_id))
      ELSE AvatarPayload(s.destination_avatar_id)>>

\* C34: every entry of a payload cache is the payload now stored for its id,
\* no entry exists for a removed entity, and between commands every running
\* worker was given the payloads now stored for the entities of its session.
C34_CachesAreCurrent ==
    /\ \A a \in DOMAIN avatar_cache :
          a \in DOMAIN avatars /\ avatar_cache[a] = AvatarPayload(a)
    /\ \A i \in DOMAIN ic_cache : i \in ICs /\ ic_cache[i] = wav_data(i)
    /\ \A q \in DOMAIN request_cache :
          q \in Requests /\ request_cache[q] = Utf8(request_data(q))
    /\ \A pid \in DOMAIN procs :
          (handler = Idle /\ procs[pid].alive)
          => /\ procs[pid].session_id \in Rows
             /\ <<procs[pid].item1_bytes, procs[pid].item2_bytes>>
                   = PayloadsOf(sessions[procs[pid].session_id])

\* An update_entity changed profile 1 and restarted a session on it: the cache
\* holds the new payload and the new worker was given it.
C34_Witness ==
    /\ last.action = "update_entity"
    /\ last.status = "success"
    /\ last.count >= 1
    /\ 1 \in DOMAIN avatar_cache
    /\ avatar_cache[1] = NewPhoto \o Utf8(NewInfo)
    /\ avatar_cache[1] # InitPhoto \o Utf8(InitInfo)
    /\ \E pid \in DOMAIN procs :
          procs[pid].alive /\ procs[pid].item1_bytes = NewPhoto \o Utf8(NewInfo)

\* C35: no avatar_link leaf has its source profile as its destination.
C35_NoSelfLink ==
    \A i \in Leaves :
        sessions[i].session_type = AVATAR_LINK
        => sessions[i].destination_avatar_id # sessions[i].avatar_id

\* C35 for start_link alone: the leaves a start_link inserts are no self-links.
C35_StartLinkSkipsSelf ==
    [][last'.action = "start_link"
       => \A n \in NewRows :
             sessions'[n].is_group_session
             \/ sessions'[n].destination_avatar_id # sessions'[n].avatar_id]_vars

\* C36: after every step no parent has an entry in active_workers or a
\* worker_pid, and update_entity leaves the status of every parent as it was.
C36_ParentsUntouchedByUpdate ==
    [][/\ \A p \in DOMAIN sessions' :
             sessions'[p].is_group_session
             => p \notin DOMAIN active_workers' /\ sessions'[p].worker_pid = NULL
       /\ last'.action = "update_entity"
          => \A p \in Parents :
                p \in DOMAIN sessions' => sessions'[p].status = sessions[p].status]_vars

\* C36, the part about processes: no parent has an entry in active_workers or
\* a worker_pid.
C36_ParentsOwnNoWorker ==
    \A p \in Parents : p \notin DOMAIN active_workers /\ sessions[p].worker_pid = NULL

\* A worker process of row i is alive.
LiveWorker(i) == \E pid \in DOMAIN procs : procs[pid].session_id = i /\ procs[pid].alive

\* C37: no live worker process exists for a session whose persisted status is
\* STOPPED, FAILED or RESTARTED, or whose row has been deleted.
C37_NoWorkerForEndedSession ==
    \A pid \in DOMAIN procs :
        procs[pid].alive
        => /\ procs[pid].session_id \in Rows
           /\ sessions[procs[pid].session_id].status \notin {STOPPED, FAILED, RESTARTED}

\* C38: between commands every RUNNING leaf that has a parent has a RUNNING
\* parent.
C38_RunningLeafHasRunningParent ==
    handler = Idle
    => \A i \in Leaves :
          (sessions[i].status = RUNNING /\ sessions[i].parent_session_id # NULL)
          => /\ sessions[i].parent_session_id \in Rows
             /\ sessions[sessions[i].parent_session_id].status = RUNNING

\* C39: between commands no session is SCHEDULED; every leaf a command
\* created is RUNNING or FAILED when the reply is sent.
C39_NoScheduledBetweenCommands ==
    handler = Idle => \A i \in Rows : sessions[i].status # SCHEDULED

\* A start command has replied after one of its leaves was started and the
\* spawn of another had failed.
C39_Witness ==
    /\ handler = Idle
    /\ last.action \in StartActions
    /\ \E i, j \in Leaves :
          /\ sessions[i].status = RUNNING
          /\ sessions[j].status = FAILED
          /\ sessions[i].start_time # NULL

\* C40: a status becomes RESTARTED only from FAILED and only in a redo_failed;
\* a redo_failed leaves every RESTARTED row as it is; and when no session has
\* failed since (none of the copies either), a redo_failed that follows a
\* redo_failed at once creates no session.
C40_RestartedOnlyOnce ==
    [][/\ \A i \in Rows :
             (/\ i \in DOMAIN sessions'
              /\ sessions'[i].status = RESTARTED
              /\ sessions[i].status # RESTARTED)
             => sessions[i].status = FAILED /\ last'.action = "redo_failed"
       /\ last'.action = "redo_failed"
          => /\ \A i \in Rows :
                   sessions[i].status = RESTARTED => sessions'[i] = sessions[i]
             /\ (\A n \in NewRows : sessions'[n].status # FAILED)
                => RedoneNext.w.next_session_id = next_session_id']_vars

\* C40 when a spawn of the first redo_failed fails: the redo_failed that
\* follows at once creates sessions only for the copies whose worker could not
\* be started in the first, one for each.
C40_SecondRedoOnlyFailedSpawns ==
    [][/\ \A i \in Rows :
             (/\ i \in DOMAIN sessions'
              /\ sessions'[i].status = RESTARTED
              /\ sessions[i].status # RESTARTED)
             => sessions[i].status = FAILED /\ last'.action = "redo_failed"
       /\ last'.action = "redo_failed"
          => /\ \A i \in Rows :
                   sessions[i].status = RESTARTED => sessions'[i] = sessions[i]
             /\ RedoneNext.w.next_session_id - next_session_id'
                   = Cardinality({n \in NewRows : sessions'[n].status = FAILED})
             /\ \A i \in DOMAIN sessions' :
                   sessions'[i].status = RESTARTED
                   => RedoneNext.w.sessions[i] = sessions'[i]]_vars

\* A redo_failed has marked a FAILED leaf RESTARTED and started its copy, and
\* a second redo_failed would find nothing to restart.
C40_Witness ==
    /\ last.action = "redo_failed"
    /\ last.count >= 1
    /\ \E i \in Leaves : sessions[i].status = RESTARTED
    /\ \E n \in Leaves : sessions[n].status = RUNNING /\ sessions[n].description.redo >= 1
    /\ \A i \in Rows : sessions[i].status # FAILED

====
